---- MODULE Spec2Model ----
(***************************************************************************)
(* goenvconf: typed configuration values that are either a literal or the  *)
(* name of an environment variable.  The model covers the resolution       *)
(* methods (Get, GetOrDefault, GetCustom) of the thirteen variants, their  *)
(* IsZero and Equal, the composite-string parsers and the variable         *)
(* sources.                                                                *)
(*                                                                         *)
(* Go strings are sequences of one-character strings, so that the parsers  *)
(* are computed character by character as the code computes them.  A Go    *)
(* pointer, nilable slice, nilable map or interface value is None (nil) or *)
(* Some(v).                                                                *)
(***************************************************************************)
EXTENDS Integers, Sequences, FiniteSets, TLC

\* Longest raw value the environment variable is given character by character.
MaxRawLen == 3

\* Characters those raw values are built from: a digit, a letter that no numeric
\* or boolean parser accepts, and the separators of an item and of a pair.
Alphabet == {"1", "a", ",", "="}

\* Longer raw values the environment variable is also given: a boolean word,
\* values with blanks, and maps of two pairs (well-formed, with two values
\* that are no numbers, with a fragment that is no pair, with a repeated key).
RawSamples ==
  {<<"t", "r", "u", "e">>,
   <<" ", "1">>,
   <<"1", ",", " ", "1">>,
   <<"k", "=", "1", ";", "a", "=", "1">>,
   <<"k", "=", "a", ";", "a", "=", "a">>,
   <<"a", ";", "k", "=", "1">>,
   <<"k", "=", "1", ";", "k", "=", "a">>}

\* The variable name the typed values refer to.
VarA == <<"A">>

Names == {VarA}

None == <<>>

Some(v) == <<v>>

IsNil(p) == Len(p) = 0

Deref(p) == p[1]

EmptyString == <<>>

(***************************************************************************)
(* Errors.  code/detail/hint are the fields of ParseEnvError; prefix is    *)
(* the variable name formatted into the detail of a slice error; wrap is   *)
(* the variable name fmt.Errorf("%s: %w") puts in front of a wrapped       *)
(* error.                                                                  *)
(***************************************************************************)
NoErr ==
  [code |-> "nil", detail |-> "", hint |-> EmptyString, prefix |-> None, wrap |-> None]

ErrEnvironmentValueRequired ==
  [code |-> "EmptyEnv", detail |-> "require either value or env",
   hint |-> EmptyString, prefix |-> None, wrap |-> None]

ErrEnvironmentVariableValueRequired ==
  [code |-> "EmptyVar", detail |-> "the environment variable value is empty",
   hint |-> EmptyString, prefix |-> None, wrap |-> None]

ErrCodeParseEnvFailed == "ParseEnvFailed"

NewParseEnvFailedError(detail, hint) ==
  [code |-> ErrCodeParseEnvFailed, detail |-> detail, hint |-> hint,
   prefix |-> None, wrap |-> None]

\* Mutation of the error of the slice parsers: the index is left out.
NewPrefixedParseError_NoHint(errorPrefix, detail, hint) ==
  [code |-> ErrCodeParseEnvFailed, detail |-> detail, hint |-> EmptyString,
   prefix |-> errorPrefix, wrap |-> None]

\* NewParseEnvFailedError(errorPrefix + detail, hint) of the slice parsers;
\* errorPrefix is "" (None) or "failed to parse <variable>: " (Some(variable)).
NewPrefixedParseError(errorPrefix, detail, hint) ==
  [code |-> ErrCodeParseEnvFailed, detail |-> detail, hint |-> hint,
   prefix |-> errorPrefix, wrap |-> None]

\* Mutation of getEnvVariableValueRequiredError: the name is not put in front.
getEnvVariableValueRequiredError_Bare(envName) ==
  ErrEnvironmentVariableValueRequired

getEnvVariableValueRequiredError(envName) ==
  IF ~IsNil(envName)
    THEN [ErrEnvironmentVariableValueRequired EXCEPT !.wrap = envName]
    ELSE ErrEnvironmentVariableValueRequired

\* errors.Is: err or the error it wraps is the target.
ErrorsIs(err, target) ==
  \/ err = target
  \/ /\ ~IsNil(err.wrap)
     /\ [err EXCEPT !.wrap = None] = target

\* The errors of the standard library the parsers pass through.
NumError(fn, kind, input) ==
  [code |-> "NumError", detail |-> fn \o ": " \o kind, hint |-> input,
   prefix |-> None, wrap |-> None]

JSONSyntaxError ==
  [code |-> "SyntaxError", detail |-> "encoding/json", hint |-> EmptyString,
   prefix |-> None, wrap |-> None]

\* The error of the test doubles mockGetEnvFunc(values, true).
MockError ==
  [code |-> "mock", detail |-> "mock error: failed to get environment variable",
   hint |-> EmptyString, prefix |-> None, wrap |-> None]

(***************************************************************************)
(* The standard-library string functions the package calls.                *)
(***************************************************************************)
RECURSIVE SplitFrom(_, _, _, _)
\* strings.Split(s, sep) for a one-character separator: cur is the fragment
\* being read, i the next position.  An empty s gives one empty fragment.
SplitFrom(s, sep, i, cur) ==
  IF i > Len(s) THEN <<cur>>
  ELSE IF s[i] = sep THEN <<cur>> \o SplitFrom(s, sep, i + 1, EmptyString)
  ELSE SplitFrom(s, sep, i + 1, Append(cur, s[i]))

Split(s, sep) == SplitFrom(s, sep, 1, EmptyString)

WhiteSpace == {" ", "\t", "\n", "\r"}

RECURSIVE TrimLeft(_)
TrimLeft(s) ==
  IF Len(s) > 0 /\ Head(s) \in WhiteSpace THEN TrimLeft(Tail(s)) ELSE s

RECURSIVE TrimRight(_)
TrimRight(s) ==
  IF Len(s) > 0 /\ s[Len(s)] \in WhiteSpace
    THEN TrimRight(SubSeq(s, 1, Len(s) - 1))
    ELSE s

\* strings.TrimSpace
TrimSpace(s) == TrimRight(TrimLeft(s))

Digits == {"0", "1", "2", "3", "4", "5", "6", "7", "8", "9"}

DigitVal(c) ==
  CASE c = "0" -> 0 [] c = "1" -> 1 [] c = "2" -> 2 [] c = "3" -> 3
    [] c = "4" -> 4 [] c = "5" -> 5 [] c = "6" -> 6 [] c = "7" -> 7
    [] c = "8" -> 8 [] c = "9" -> 9

AllDigits(s) == \A i \in 1..Len(s) : s[i] \in Digits

RECURSIVE DigitsVal(_)
DigitsVal(s) ==
  IF Len(s) = 0 THEN 0
  ELSE 10 * DigitsVal(SubSeq(s, 1, Len(s) - 1)) + DigitVal(s[Len(s)])

\* strconv.ParseInt(s, 10, 64): an optional sign and decimal digits.  A raw
\* value has at most MaxRawLen characters, so its digits are far inside the
\* int64 range and the range error of ParseInt cannot arise.
ParseInt(s) ==
  LET neg  == Len(s) > 0 /\ s[1] = "-"
      body == IF Len(s) > 0 /\ s[1] \in {"+", "-"} THEN Tail(s) ELSE s
  IN  IF Len(body) = 0 \/ ~AllDigits(body)
        THEN [val |-> 0, err |-> NumError("strconv.ParseInt", "invalid syntax", s)]
        ELSE [val |-> IF neg THEN -DigitsVal(body) ELSE DigitsVal(body),
              err |-> NoErr]

BoolTrue ==
  {<<"1">>, <<"t">>, <<"T">>, <<"T", "R", "U", "E">>, <<"t", "r", "u", "e">>,
   <<"T", "r", "u", "e">>}

BoolFalse ==
  {<<"0">>, <<"f">>, <<"F">>, <<"F", "A", "L", "S", "E">>,
   <<"f", "a", "l", "s", "e">>, <<"F", "a", "l", "s", "e">>}

\* strconv.ParseBool
ParseBool(s) ==
  IF s \in BoolTrue THEN [val |-> TRUE, err |-> NoErr]
  ELSE IF s \in BoolFalse THEN [val |-> FALSE, err |-> NoErr]
  ELSE [val |-> FALSE, err |-> NumError("strconv.ParseBool", "invalid syntax", s)]

\* A float64 is mant * 10^exp with mant not a multiple of ten (0 is 0 * 10^0).
RECURSIVE NormFloat(_, _)
NormFloat(mant, exp) ==
  IF mant = 0 THEN [mant |-> 0, exp |-> 0]
  ELSE IF mant % 10 = 0 THEN NormFloat(mant \div 10, exp + 1)
  ELSE [mant |-> mant, exp |-> exp]

RECURSIVE IndexFrom(_, _, _)
\* strings.Index for one character, 0 when absent.
IndexFrom(s, c, i) ==
  IF i > Len(s) THEN 0 ELSE IF s[i] = c THEN i ELSE IndexFrom(s, c, i + 1)

\* The decimal digits-and-point forms of a number: [sign] digits [. digits].
\* No raw value of the model has the characters of an exponent, of a
\* hexadecimal form, of Inf or of NaN in a place where they would be read.
DecimalForm(body) ==
  LET dot  == IndexFrom(body, ".", 1)
      int  == IF dot = 0 THEN body ELSE SubSeq(body, 1, dot - 1)
      frac == IF dot = 0 THEN EmptyString ELSE SubSeq(body, dot + 1, Len(body))
  IN  [ok   |-> AllDigits(int) /\ AllDigits(frac) /\ Len(int) + Len(frac) > 0,
       int  |-> int,
       frac |-> frac]

\* strconv.ParseFloat(s, 64)
ParseFloat(s) ==
  LET neg  == Len(s) > 0 /\ s[1] = "-"
      body == IF Len(s) > 0 /\ s[1] \in {"+", "-"} THEN Tail(s) ELSE s
      d    == DecimalForm(body)
  IN  IF ~d.ok
        THEN [val |-> NormFloat(0, 0),
              err |-> NumError("strconv.ParseFloat", "invalid syntax", s)]
        ELSE LET m == DigitsVal(d.int \o d.frac)
             IN  [val |-> NormFloat(IF neg THEN -m ELSE m, -Len(d.frac)),
                  err |-> NoErr]

\* A value of Go's type any, by its dynamic type.
AnyString(s) == [type |-> "string", s |-> s, b |-> FALSE, f |-> NormFloat(0, 0)]

AnyBool(b) == [type |-> "bool", s |-> EmptyString, b |-> b, f |-> NormFloat(0, 0)]

AnyFloat(f) == [type |-> "float64", s |-> EmptyString, b |-> FALSE, f |-> f]

\* A JSON number: [-] (0 | nonzero digits) [. digits+].
JSONNumberForm(t) ==
  LET body == IF Len(t) > 0 /\ t[1] = "-" THEN Tail(t) ELSE t
      d    == DecimalForm(body)
      dot  == IndexFrom(body, ".", 1)
  IN  /\ d.ok
      /\ Len(d.int) > 0
      /\ (Len(d.int) > 1 => d.int[1] # "0")
      /\ (dot # 0 => Len(d.frac) > 0)

\* json.Unmarshal([]byte(raw), &result) with result of type any: the text is
\* validated first, so on a syntax error result stays nil.  A JSON number
\* decodes to a float64, true and false to a bool, null to nil.  No raw value
\* of the model has the characters of a JSON string, array or object.
JSONUnmarshal(raw) ==
  LET t == TrimSpace(raw)
  IN  IF JSONNumberForm(t)
        THEN [val |-> Some(AnyFloat(ParseFloat(t).val)), err |-> NoErr]
      ELSE IF t = <<"t", "r", "u", "e">>
        THEN [val |-> Some(AnyBool(TRUE)), err |-> NoErr]
      ELSE IF t = <<"f", "a", "l", "s", "e">>
        THEN [val |-> Some(AnyBool(FALSE)), err |-> NoErr]
      ELSE IF t = <<"n", "u", "l", "l">>
        THEN [val |-> None, err |-> NoErr]
      ELSE [val |-> None, err |-> JSONSyntaxError]

\* strconv.Itoa for the indexes of a slice.
RECURSIVE Itoa(_)
Itoa(n) ==
  LET d == <<"0", "1", "2", "3", "4", "5", "6", "7", "8", "9">>
  IN  IF n < 10 THEN <<d[n + 1]>> ELSE Append(Itoa(n \div 10), d[(n % 10) + 1])

(***************************************************************************)
(* The composite-string parsers.  A parser result is [val, err]; a Go map  *)
(* is a function from its keys, a Go slice a sequence.                     *)
(***************************************************************************)
keyValueLength == 2

\* Mutation of the map store: a key that is already there keeps its value.
MapPut_KeepsFirst(m, k, v) ==
  [x \in DOMAIN m \cup {k} |-> IF x \in DOMAIN m THEN m[x] ELSE v]

MapPut(m, k, v) == [x \in DOMAIN m \cup {k} |-> IF x = k THEN v ELSE m[x]]

EmptyMap == [x \in {} |-> EmptyString]

RECURSIVE ParseStringMapItems(_, _, _)
\* The loop of ParseStringMapFromString over the ';'-separated rawItems, from
\* item i on, with the result built so far.
ParseStringMapItems(rawItems, i, result) ==
  IF i > Len(rawItems) THEN [val |-> Some(result), err |-> NoErr]
  ELSE LET keyValue == Split(rawItems[i], "=")
       IN  IF Len(keyValue) # keyValueLength \/ keyValue[1] = EmptyString
             THEN [val |-> None,
                   err |-> NewParseEnvFailedError(
                     "invalid string map syntax, expected: <key1>=<value1>;<key2>=<value2>",
                     keyValue[1])]
             ELSE ParseStringMapItems(rawItems, i + 1,
                                      MapPut(result, keyValue[1], keyValue[2]))

ParseStringMapFromString(input) ==
  IF input = EmptyString THEN [val |-> Some(EmptyMap), err |-> NoErr]
  ELSE ParseStringMapItems(Split(input, ";"), 1, EmptyMap)

\* The integer types the generic integer parsers are instantiated with here:
\* the one the typed values use and three narrower ones.
IntegerTypes == {"int64", "int16", "int8", "uint8"}

\* Width in bits of the integer types narrower than 64 bits.
BitsOf(T) == IF T = "int16" THEN 16 ELSE 8

\* The Go conversion T(v) of an int64, a float64 or a bool v found by strconv:
\* to a narrower integer type it keeps the low bits of v (two's complement),
\* to int64, float64 and bool it keeps v.
ConvertTo(T, v) ==
  IF T \in {"int16", "int8"}
    THEN ((v + 2^(BitsOf(T) - 1)) % 2^BitsOf(T)) - 2^(BitsOf(T) - 1)
  ELSE IF T = "uint8" THEN v % 2^BitsOf(T)
  ELSE v

\* The strconv conversion a typed parser applies to each raw item.
StrconvParse(conv, s) ==
  CASE conv = "ParseInt"   -> ParseInt(s)
    [] conv = "ParseFloat" -> ParseFloat(s)
    [] conv = "ParseBool"  -> ParseBool(s)

\* The conversion loop of the typed map parsers: Go ranges over rawValues in
\* an unspecified order and returns at the first value that fails, so any
\* failing key may be the one reported.  The set of possible results.
ConvertMapOutcomes(rawValues, conv, T, detail) ==
  LET failing == {k \in DOMAIN rawValues : StrconvParse(conv, rawValues[k]).err # NoErr}
  IN  IF failing = {}
        THEN {[val |-> Some([k \in DOMAIN rawValues |->
                               ConvertTo(T, StrconvParse(conv, rawValues[k]).val)]),
               err |-> NoErr]}
        ELSE {[val |-> None, err |-> NewParseEnvFailedError(detail, k)] : k \in failing}

ParseIntegerMapFromString(T, input) ==
  LET raw == ParseStringMapFromString(input)
  IN  IF raw.err # NoErr THEN {[val |-> None, err |-> raw.err]}
      ELSE ConvertMapOutcomes(Deref(raw.val), "ParseInt", T,
                              "invalid integer map syntax")

ParseFloatMapFromString(input) ==
  LET raw == ParseStringMapFromString(input)
  IN  IF raw.err # NoErr THEN {[val |-> None, err |-> raw.err]}
      ELSE ConvertMapOutcomes(Deref(raw.val), "ParseFloat", "float64",
                              "invalid float map syntax")

ParseBoolMapFromString(input) ==
  LET raw == ParseStringMapFromString(input)
  IN  IF raw.err # NoErr THEN {[val |-> None, err |-> raw.err]}
      ELSE ConvertMapOutcomes(Deref(raw.val), "ParseBool", "bool",
                              "invalid boolean map syntax")

ParseStringSliceFromString(input) == Split(input, ",")

RECURSIVE ConvertSliceItems(_, _, _, _, _, _, _)
\* The conversion loop of the typed slice parsers from index (0-based) on.
ConvertSliceItems(rawValues, index, results, conv, T, errorPrefix, detail) ==
  IF index >= Len(rawValues) THEN [val |-> Some(results), err |-> NoErr]
  ELSE LET c == StrconvParse(conv, TrimSpace(rawValues[index + 1]))
       IN  IF c.err # NoErr
             THEN [val |-> None,
                   err |-> NewPrefixedParseError(errorPrefix, detail, Itoa(index))]
             ELSE ConvertSliceItems(rawValues, index + 1,
                                    Append(results, ConvertTo(T, c.val)),
                                    conv, T, errorPrefix, detail)

parseIntSliceFromStringWithErrorPrefix(T, input, errorPrefix) ==
  ConvertSliceItems(ParseStringSliceFromString(input), 0, <<>>, "ParseInt", T,
                    errorPrefix, "invalid integer slice syntax")

ParseIntSliceFromString(T, input) ==
  parseIntSliceFromStringWithErrorPrefix(T, input, None)

parseFloatSliceFromStringWithErrorPrefix(input, errorPrefix) ==
  ConvertSliceItems(ParseStringSliceFromString(input), 0, <<>>, "ParseFloat",
                    "float64", errorPrefix,
                    "invalid floating-point number slice syntax")

ParseFloatSliceFromString(input) ==
  parseFloatSliceFromStringWithErrorPrefix(input, None)

parseBoolSliceFromStringWithErrorPrefix(input, errorPrefix) ==
  ConvertSliceItems(ParseStringSliceFromString(input), 0, <<>>, "ParseBool",
                    "bool", errorPrefix, "invalid boolean slice syntax")

ParseBoolSliceFromString(input) ==
  parseBoolSliceFromStringWithErrorPrefix(input, None)

(***************************************************************************)
(* The process environment and the variable sources.  environ maps each    *)
(* name to None (undefined) or Some(value).                                *)
(***************************************************************************)
\* os.LookupEnv
LookupEnv(environ, key) ==
  IF key \in DOMAIN environ /\ ~IsNil(environ[key])
    THEN [value |-> Deref(environ[key]), ok |-> TRUE]
    ELSE [value |-> EmptyString, ok |-> FALSE]

\* os.Getenv
Getenv(environ, key) == LookupEnv(environ, key).value

GetOSEnv(environ, s) ==
  LET l == LookupEnv(environ, s)
  IN  IF ~l.ok
        THEN [value |-> l.value, err |-> ErrEnvironmentVariableValueRequired]
        ELSE [value |-> l.value, err |-> NoErr]

\* The test double mockGetEnvFunc(values, returnError) of the test files, with
\* the defined variables of environ as its values.
mockGetEnvFunc(environ, returnError, key) ==
  IF returnError THEN [value |-> EmptyString, err |-> MockError]
  ELSE IF LookupEnv(environ, key).ok
    THEN [value |-> LookupEnv(environ, key).value, err |-> NoErr]
    ELSE [value |-> EmptyString, err |-> NoErr]

\* The sources handed to GetCustom: the process environment, the test double
\* with and without its error, and a source that returns the value it found
\* together with an error (a GetEnvFunc may return any pair).
Sources == {"GetOSEnv", "mock", "mockError", "valueAndError"}

CallSource(getFunc, environ, key) ==
  CASE getFunc = "GetOSEnv"  -> GetOSEnv(environ, key)
    [] getFunc = "mock"      -> mockGetEnvFunc(environ, FALSE, key)
    [] getFunc = "mockError" -> mockGetEnvFunc(environ, TRUE, key)
    [] getFunc = "valueAndError" ->
         [value |-> LookupEnv(environ, key).value, err |-> MockError]

(***************************************************************************)
(* The typed values.  ev is [kind, Value, Variable]: Value is None or      *)
(* Some(literal), Variable is None or Some(name).  A method result is      *)
(* [val, err]; GetCustom adds calls, the keys it passed to getFunc.        *)
(***************************************************************************)
\* Mutation of HasVariable: the test for the empty name is missing.
HasVariable_NilCheckOnly(ev) == ~IsNil(ev.Variable)

HasVariable(ev) == ~IsNil(ev.Variable) /\ Deref(ev.Variable) # EmptyString

WithCalls(r, calls) == [val |-> r.val, err |-> r.err, calls |-> calls]

ZeroFloat == NormFloat(0, 0)

EnvString_IsZero(ev) ==
  (IsNil(ev.Variable) \/ Deref(ev.Variable) = EmptyString) /\ IsNil(ev.Value)

EnvString_Get(ev, environ) ==
  IF EnvString_IsZero(ev)
    THEN [val |-> EmptyString, err |-> ErrEnvironmentValueRequired]
  ELSE LET l == IF HasVariable(ev)
                  THEN LookupEnv(environ, Deref(ev.Variable))
                  ELSE [value |-> EmptyString, ok |-> FALSE]
       IN  IF HasVariable(ev) /\ l.value # EmptyString
             THEN [val |-> l.value, err |-> NoErr]
           ELSE IF ~IsNil(ev.Value)
             THEN [val |-> Deref(ev.Value), err |-> NoErr]
           ELSE IF l.ok
             THEN [val |-> EmptyString, err |-> NoErr]
           ELSE [val |-> EmptyString,
                 err |-> getEnvVariableValueRequiredError(ev.Variable)]

EnvString_GetOrDefault(ev, environ, defaultValue) ==
  LET r == EnvString_Get(ev, environ)
  IN  IF r.err # NoErr
        THEN IF ErrorsIs(r.err, ErrEnvironmentVariableValueRequired)
               THEN [val |-> defaultValue, err |-> NoErr]
               ELSE [val |-> EmptyString, err |-> r.err]
      ELSE IF r.val = EmptyString
        THEN [val |-> defaultValue, err |-> NoErr]
      ELSE [val |-> r.val, err |-> NoErr]

\* Mutation of EnvString.GetCustom: as the other scalars, an empty string
\* from the source falls back to the literal.
EnvString_GetCustom_EmptyFallsBack(ev, environ, getFunc) ==
  IF EnvString_IsZero(ev)
    THEN [val |-> EmptyString, err |-> ErrEnvironmentValueRequired, calls |-> <<>>]
  ELSE LET s     == IF HasVariable(ev)
                      THEN CallSource(getFunc, environ, Deref(ev.Variable))
                      ELSE [value |-> EmptyString, err |-> NoErr]
           calls == IF HasVariable(ev) THEN <<Deref(ev.Variable)>> ELSE <<>>
       IN  IF HasVariable(ev) /\ (s.err # NoErr \/ s.value # EmptyString)
             THEN [val |-> s.value, err |-> s.err, calls |-> calls]
           ELSE IF ~IsNil(ev.Value)
             THEN [val |-> Deref(ev.Value), err |-> NoErr, calls |-> calls]
           ELSE [val |-> EmptyString,
                 err |-> getEnvVariableValueRequiredError(ev.Variable),
                 calls |-> calls]

EnvString_GetCustom(ev, environ, getFunc) ==
  IF EnvString_IsZero(ev)
    THEN [val |-> EmptyString, err |-> ErrEnvironmentValueRequired, calls |-> <<>>]
  ELSE IF HasVariable(ev)
    THEN LET s == CallSource(getFunc, environ, Deref(ev.Variable))
         IN  [val |-> s.value, err |-> s.err, calls |-> <<Deref(ev.Variable)>>]
  ELSE IF ~IsNil(ev.Value)
    THEN [val |-> Deref(ev.Value), err |-> NoErr, calls |-> <<>>]
  ELSE [val |-> EmptyString,
        err |-> getEnvVariableValueRequiredError(ev.Variable), calls |-> <<>>]

EnvInt_IsZero(ev) ==
  (IsNil(ev.Variable) \/ Deref(ev.Variable) = EmptyString) /\ IsNil(ev.Value)

\* Mutation of EnvInt.Get: as EnvString.Get, a variable defined with the
\* empty string gives the zero value and no error when there is no literal.
EnvInt_Get_EmptyIsValue(ev, environ) ==
  IF EnvInt_IsZero(ev)
    THEN [val |-> 0, err |-> ErrEnvironmentValueRequired]
  ELSE LET l == IF HasVariable(ev)
                  THEN LookupEnv(environ, Deref(ev.Variable))
                  ELSE [value |-> EmptyString, ok |-> FALSE]
       IN  IF HasVariable(ev) /\ l.value # EmptyString
             THEN ParseInt(l.value)
           ELSE IF ~IsNil(ev.Value)
             THEN [val |-> Deref(ev.Value), err |-> NoErr]
           ELSE IF l.ok
             THEN [val |-> 0, err |-> NoErr]
           ELSE [val |-> 0,
                 err |-> getEnvVariableValueRequiredError(ev.Variable)]

EnvInt_Get(ev, environ) ==
  IF EnvInt_IsZero(ev)
    THEN [val |-> 0, err |-> ErrEnvironmentValueRequired]
  ELSE LET rawValue == IF HasVariable(ev)
                         THEN Getenv(environ, Deref(ev.Variable))
                         ELSE EmptyString
       IN  IF HasVariable(ev) /\ rawValue # EmptyString
             THEN ParseInt(rawValue)
           ELSE IF ~IsNil(ev.Value)
             THEN [val |-> Deref(ev.Value), err |-> NoErr]
           ELSE [val |-> 0,
                 err |-> getEnvVariableValueRequiredError(ev.Variable)]

\* Mutation of EnvInt.GetOrDefault: every error of Get gives the default.
EnvInt_GetOrDefault_AnyError(ev, environ, defaultValue) ==
  LET r == EnvInt_Get(ev, environ)
  IN  IF r.err # NoErr
        THEN [val |-> defaultValue, err |-> NoErr]
        ELSE [val |-> r.val, err |-> NoErr]

EnvInt_GetOrDefault(ev, environ, defaultValue) ==
  LET r == EnvInt_Get(ev, environ)
  IN  IF r.err # NoErr
        THEN IF ErrorsIs(r.err, ErrEnvironmentVariableValueRequired)
               THEN [val |-> defaultValue, err |-> NoErr]
               ELSE [val |-> 0, err |-> r.err]
      ELSE [val |-> r.val, err |-> NoErr]

EnvInt_GetCustom(ev, environ, getFunc) ==
  IF EnvInt_IsZero(ev)
    THEN [val |-> 0, err |-> ErrEnvironmentValueRequired, calls |-> <<>>]
  ELSE LET s     == IF HasVariable(ev)
                      THEN CallSource(getFunc, environ, Deref(ev.Variable))
                      ELSE [value |-> EmptyString, err |-> NoErr]
           calls == IF HasVariable(ev) THEN <<Deref(ev.Variable)>> ELSE <<>>
       IN  IF HasVariable(ev) /\ s.err # NoErr
             THEN [val |-> 0, err |-> s.err, calls |-> calls]
           ELSE IF HasVariable(ev) /\ s.value # EmptyString
             THEN WithCalls(ParseInt(s.value), calls)
           ELSE IF ~IsNil(ev.Value)
             THEN [val |-> Deref(ev.Value), err |-> NoErr, calls |-> calls]
           ELSE [val |-> 0,
                 err |-> getEnvVariableValueRequiredError(ev.Variable),
                 calls |-> calls]

EnvBool_IsZero(ev) ==
  (IsNil(ev.Variable) \/ Deref(ev.Variable) = EmptyString) /\ IsNil(ev.Value)

EnvBool_Get(ev, environ) ==
  IF EnvBool_IsZero(ev)
    THEN [val |-> FALSE, err |-> ErrEnvironmentValueRequired]
  ELSE LET rawValue == IF HasVariable(ev)
                         THEN Getenv(environ, Deref(ev.Variable))
                         ELSE EmptyString
       IN  IF HasVariable(ev) /\ rawValue # EmptyString
             THEN ParseBool(rawValue)
           ELSE IF ~IsNil(ev.Value)
             THEN [val |-> Deref(ev.Value), err |-> NoErr]
           ELSE [val |-> FALSE,
                 err |-> getEnvVariableValueRequiredError(ev.Variable)]

\* Mutation of EnvBool.GetOrDefault: a false result gives the default, as the
\* empty result of EnvString.GetOrDefault does.
EnvBool_GetOrDefault_ZeroIsEmpty(ev, environ, defaultValue) ==
  LET r == EnvBool_Get(ev, environ)
  IN  IF r.err # NoErr
        THEN IF ErrorsIs(r.err, ErrEnvironmentVariableValueRequired)
               THEN [val |-> defaultValue, err |-> NoErr]
               ELSE [val |-> FALSE, err |-> r.err]
      ELSE IF r.val = FALSE
        THEN [val |-> defaultValue, err |-> NoErr]
      ELSE [val |-> r.val, err |-> NoErr]

EnvBool_GetOrDefault(ev, environ, defaultValue) ==
  LET r == EnvBool_Get(ev, environ)
  IN  IF r.err # NoErr
        THEN IF ErrorsIs(r.err, ErrEnvironmentVariableValueRequired)
               THEN [val |-> defaultValue, err |-> NoErr]
               ELSE [val |-> FALSE, err |-> r.err]
      ELSE [val |-> r.val, err |-> NoErr]

\* Mutation of EnvBool.GetCustom: the empty raw value is parsed too.
EnvBool_GetCustom_ParsesEmpty(ev, environ, getFunc) ==
  IF EnvBool_IsZero(ev)
    THEN [val |-> FALSE, err |-> ErrEnvironmentValueRequired, calls |-> <<>>]
  ELSE LET s     == IF HasVariable(ev)
                      THEN CallSource(getFunc, environ, Deref(ev.Variable))
                      ELSE [value |-> EmptyString, err |-> NoErr]
           calls == IF HasVariable(ev) THEN <<Deref(ev.Variable)>> ELSE <<>>
       IN  IF HasVariable(ev) /\ s.err # NoErr
             THEN [val |-> FALSE, err |-> s.err, calls |-> calls]
           ELSE IF HasVariable(ev)
             THEN WithCalls(ParseBool(s.value), calls)
           ELSE IF ~IsNil(ev.Value)
             THEN [val |-> Deref(ev.Value), err |-> NoErr, calls |-> calls]
           ELSE [val |-> FALSE,
                 err |-> getEnvVariableValueRequiredError(ev.Variable),
                 calls |-> calls]

EnvBool_GetCustom(ev, environ, getFunc) ==
  IF EnvBool_IsZero(ev)
    THEN [val |-> FALSE, err |-> ErrEnvironmentValueRequired, calls |-> <<>>]
  ELSE LET s     == IF HasVariable(ev)
                      THEN CallSource(getFunc, environ, Deref(ev.Variable))
                      ELSE [value |-> EmptyString, err |-> NoErr]
           calls == IF HasVariable(ev) THEN <<Deref(ev.Variable)>> ELSE <<>>
       IN  IF HasVariable(ev) /\ s.err # NoErr
             THEN [val |-> FALSE, err |-> s.err, calls |-> calls]
           ELSE IF HasVariable(ev) /\ s.value # EmptyString
             THEN WithCalls(ParseBool(s.value), calls)
           ELSE IF ~IsNil(ev.Value)
             THEN [val |-> Deref(ev.Value), err |-> NoErr, calls |-> calls]
           ELSE [val |-> FALSE,
                 err |-> getEnvVariableValueRequiredError(ev.Variable),
                 calls |-> calls]

EnvFloat_IsZero(ev) ==
  (IsNil(ev.Variable) \/ Deref(ev.Variable) = EmptyString) /\ IsNil(ev.Value)

EnvFloat_Get(ev, environ) ==
  IF EnvFloat_IsZero(ev)
    THEN [val |-> ZeroFloat, err |-> ErrEnvironmentValueRequired]
  ELSE LET rawValue == IF HasVariable(ev)
                         THEN Getenv(environ, Deref(ev.Variable))
                         ELSE EmptyString
       IN  IF HasVariable(ev) /\ rawValue # EmptyString
             THEN ParseFloat(rawValue)
           ELSE IF ~IsNil(ev.Value)
             THEN [val |-> Deref(ev.Value), err |-> NoErr]
           ELSE [val |-> ZeroFloat,
                 err |-> getEnvVariableValueRequiredError(ev.Variable)]

EnvFloat_GetOrDefault(ev, environ, defaultValue) ==
  LET r == EnvFloat_Get(ev, environ)
  IN  IF r.err # NoErr
        THEN IF ErrorsIs(r.err, ErrEnvironmentVariableValueRequired)
               THEN [val |-> defaultValue, err |-> NoErr]
               ELSE [val |-> ZeroFloat, err |-> r.err]
      ELSE [val |-> r.val, err |-> NoErr]

\* Mutation of EnvFloat.GetCustom: the source is called once for the error
\* and once more for the value.
EnvFloat_GetCustom_AsksTwice(ev, environ, getFunc) ==
  IF (IsNil(ev.Variable) \/ Deref(ev.Variable) = EmptyString) /\ IsNil(ev.Value)
    THEN [val |-> NormFloat(0, 0), err |-> ErrEnvironmentValueRequired, calls |-> <<>>]
  ELSE LET s     == IF HasVariable(ev)
                      THEN CallSource(getFunc, environ, Deref(ev.Variable))
                      ELSE [value |-> EmptyString, err |-> NoErr]
           calls == IF ~HasVariable(ev) THEN <<>>
                    ELSE IF s.err # NoErr THEN <<Deref(ev.Variable)>>
                    ELSE <<Deref(ev.Variable), Deref(ev.Variable)>>
       IN  IF HasVariable(ev) /\ s.err # NoErr
             THEN [val |-> NormFloat(0, 0), err |-> s.err, calls |-> calls]
           ELSE IF HasVariable(ev) /\ s.value # EmptyString
             THEN WithCalls(ParseFloat(s.value), calls)
           ELSE IF ~IsNil(ev.Value)
             THEN [val |-> Deref(ev.Value), err |-> NoErr, calls |-> calls]
           ELSE [val |-> NormFloat(0, 0),
                 err |-> getEnvVariableValueRequiredError(ev.Variable),
                 calls |-> calls]

EnvFloat_GetCustom(ev, environ, getFunc) ==
  IF EnvFloat_IsZero(ev)
    THEN [val |-> ZeroFloat, err |-> ErrEnvironmentValueRequired, calls |-> <<>>]
  ELSE LET s     == IF HasVariable(ev)
                      THEN CallSource(getFunc, environ, Deref(ev.Variable))
                      ELSE [value |-> EmptyString, err |-> NoErr]
           calls == IF HasVariable(ev) THEN <<Deref(ev.Variable)>> ELSE <<>>
       IN  IF HasVariable(ev) /\ s.err # NoErr
             THEN [val |-> ZeroFloat, err |-> s.err, calls |-> calls]
           ELSE IF HasVariable(ev) /\ s.value # EmptyString
             THEN WithCalls(ParseFloat(s.value), calls)
           ELSE IF ~IsNil(ev.Value)
             THEN [val |-> Deref(ev.Value), err |-> NoErr, calls |-> calls]
           ELSE [val |-> ZeroFloat,
                 err |-> getEnvVariableValueRequiredError(ev.Variable),
                 calls |-> calls]

\* Mutation of EnvStringSlice.IsZero: an empty name counts as a name.
EnvStringSlice_IsZero_NilCheckOnly(ev) ==
  IsNil(ev.Variable) /\ IsNil(ev.Value)

EnvStringSlice_IsZero(ev) ==
  (IsNil(ev.Variable) \/ Deref(ev.Variable) = EmptyString) /\ IsNil(ev.Value)

EnvStringSlice_Get(ev, environ) ==
  IF EnvStringSlice_IsZero(ev)
    THEN [val |-> None, err |-> ErrEnvironmentValueRequired]
  ELSE LET l     == IF HasVariable(ev)
                      THEN LookupEnv(environ, Deref(ev.Variable))
                      ELSE [value |-> EmptyString, ok |-> FALSE]
           value == l.value
       IN  IF HasVariable(ev) /\ value # EmptyString
             THEN [val |-> Some(ParseStringSliceFromString(value)), err |-> NoErr]
           ELSE IF ~IsNil(ev.Value)
             THEN [val |-> ev.Value, err |-> NoErr]
           ELSE IF l.ok
             THEN [val |-> Some(<<>>), err |-> NoErr]
           ELSE [val |-> None,
                 err |-> getEnvVariableValueRequiredError(ev.Variable)]

\* Mutation of EnvStringSlice.GetCustom: on an error of the source the literal
\* is returned together with the error.
EnvStringSlice_GetCustom_LiteralWithError(ev, environ, getFunc) ==
  IF (IsNil(ev.Variable) \/ Deref(ev.Variable) = EmptyString) /\ IsNil(ev.Value)
    THEN [val |-> None, err |-> ErrEnvironmentValueRequired, calls |-> <<>>]
  ELSE LET s     == IF HasVariable(ev)
                      THEN CallSource(getFunc, environ, Deref(ev.Variable))
                      ELSE [value |-> EmptyString, err |-> NoErr]
           value == s.value
           calls == IF HasVariable(ev) THEN <<Deref(ev.Variable)>> ELSE <<>>
       IN  IF HasVariable(ev) /\ s.err # NoErr
             THEN [val |-> ev.Value, err |-> s.err, calls |-> calls]
           ELSE IF HasVariable(ev) /\ value # EmptyString
             THEN WithCalls([val |-> Some(ParseStringSliceFromString(value)), err |-> NoErr], calls)
           ELSE IF ~IsNil(ev.Value)
             THEN [val |-> ev.Value, err |-> NoErr, calls |-> calls]
           ELSE [val |-> None,
                 err |-> getEnvVariableValueRequiredError(ev.Variable),
                 calls |-> calls]

EnvStringSlice_GetCustom(ev, environ, getFunc) ==
  IF EnvStringSlice_IsZero(ev)
    THEN [val |-> None, err |-> ErrEnvironmentValueRequired, calls |-> <<>>]
  ELSE LET s     == IF HasVariable(ev)
                      THEN CallSource(getFunc, environ, Deref(ev.Variable))
                      ELSE [value |-> EmptyString, err |-> NoErr]
           value == s.value
           calls == IF HasVariable(ev) THEN <<Deref(ev.Variable)>> ELSE <<>>
       IN  IF HasVariable(ev) /\ s.err # NoErr
             THEN [val |-> None, err |-> s.err, calls |-> calls]
           ELSE IF HasVariable(ev) /\ value # EmptyString
             THEN WithCalls([val |-> Some(ParseStringSliceFromString(value)), err |-> NoErr], calls)
           ELSE IF ~IsNil(ev.Value)
             THEN [val |-> ev.Value, err |-> NoErr, calls |-> calls]
           ELSE [val |-> None,
                 err |-> getEnvVariableValueRequiredError(ev.Variable),
                 calls |-> calls]

EnvIntSlice_IsZero(ev) ==
  (IsNil(ev.Variable) \/ Deref(ev.Variable) = EmptyString) /\ IsNil(ev.Value)

EnvIntSlice_Get(ev, environ) ==
  IF EnvIntSlice_IsZero(ev)
    THEN [val |-> None, err |-> ErrEnvironmentValueRequired]
  ELSE LET l     == IF HasVariable(ev)
                      THEN LookupEnv(environ, Deref(ev.Variable))
                      ELSE [value |-> EmptyString, ok |-> FALSE]
           value == l.value
       IN  IF HasVariable(ev) /\ value # EmptyString
             THEN parseIntSliceFromStringWithErrorPrefix("int64", value, ev.Variable)
           ELSE IF ~IsNil(ev.Value)
             THEN [val |-> ev.Value, err |-> NoErr]
           ELSE IF l.ok
             THEN [val |-> Some(<<>>), err |-> NoErr]
           ELSE [val |-> None,
                 err |-> getEnvVariableValueRequiredError(ev.Variable)]

EnvIntSlice_GetCustom(ev, environ, getFunc) ==
  IF EnvIntSlice_IsZero(ev)
    THEN [val |-> None, err |-> ErrEnvironmentValueRequired, calls |-> <<>>]
  ELSE LET s     == IF HasVariable(ev)
                      THEN CallSource(getFunc, environ, Deref(ev.Variable))
                      ELSE [value |-> EmptyString, err |-> NoErr]
           value == s.value
           calls == IF HasVariable(ev) THEN <<Deref(ev.Variable)>> ELSE <<>>
       IN  IF HasVariable(ev) /\ s.err # NoErr
             THEN [val |-> None, err |-> s.err, calls |-> calls]
           ELSE IF HasVariable(ev) /\ value # EmptyString
             THEN WithCalls(parseIntSliceFromStringWithErrorPrefix("int64", value, ev.Variable), calls)
           ELSE IF ~IsNil(ev.Value)
             THEN [val |-> ev.Value, err |-> NoErr, calls |-> calls]
           ELSE [val |-> None,
                 err |-> getEnvVariableValueRequiredError(ev.Variable),
                 calls |-> calls]

EnvFloatSlice_IsZero(ev) ==
  (IsNil(ev.Variable) \/ Deref(ev.Variable) = EmptyString) /\ IsNil(ev.Value)

EnvFloatSlice_Get(ev, environ) ==
  IF EnvFloatSlice_IsZero(ev)
    THEN [val |-> None, err |-> ErrEnvironmentValueRequired]
  ELSE LET l     == IF HasVariable(ev)
                      THEN LookupEnv(environ, Deref(ev.Variable))
                      ELSE [value |-> EmptyString, ok |-> FALSE]
           value == l.value
       IN  IF HasVariable(ev) /\ value # EmptyString
             THEN parseFloatSliceFromStringWithErrorPrefix(value, ev.Variable)
           ELSE IF ~IsNil(ev.Value)
             THEN [val |-> ev.Value, err |-> NoErr]
           ELSE IF l.ok
             THEN [val |-> Some(<<>>), err |-> NoErr]
           ELSE [val |-> None,
                 err |-> getEnvVariableValueRequiredError(ev.Variable)]

EnvFloatSlice_GetCustom(ev, environ, getFunc) ==
  IF EnvFloatSlice_IsZero(ev)
    THEN [val |-> None, err |-> ErrEnvironmentValueRequired, calls |-> <<>>]
  ELSE LET s     == IF HasVariable(ev)
                      THEN CallSource(getFunc, environ, Deref(ev.Variable))
                      ELSE [value |-> EmptyString, err |-> NoErr]
           value == s.value
           calls == IF HasVariable(ev) THEN <<Deref(ev.Variable)>> ELSE <<>>
       IN  IF HasVariable(ev) /\ s.err # NoErr
             THEN [val |-> None, err |-> s.err, calls |-> calls]
           ELSE IF HasVariable(ev) /\ value # EmptyString
             THEN WithCalls(parseFloatSliceFromStringWithErrorPrefix(value, ev.Variable), calls)
           ELSE IF ~IsNil(ev.Value)
             THEN [val |-> ev.Value, err |-> NoErr, calls |-> calls]
           ELSE [val |-> None,
                 err |-> getEnvVariableValueRequiredError(ev.Variable),
                 calls |-> calls]

EnvBoolSlice_IsZero(ev) ==
  (IsNil(ev.Variable) \/ Deref(ev.Variable) = EmptyString) /\ IsNil(ev.Value)

\* Mutation of EnvBoolSlice.Get: os.Getenv in place of os.LookupEnv, so a
\* variable defined with the empty string is not told from an undefined one.
EnvBoolSlice_Get_NoEnvExisted(ev, environ) ==
  IF (IsNil(ev.Variable) \/ Deref(ev.Variable) = EmptyString) /\ IsNil(ev.Value)
    THEN [val |-> None, err |-> ErrEnvironmentValueRequired]
  ELSE LET value == IF HasVariable(ev)
                      THEN Getenv(environ, Deref(ev.Variable))
                      ELSE EmptyString
       IN  IF HasVariable(ev) /\ value # EmptyString
             THEN parseBoolSliceFromStringWithErrorPrefix(value, ev.Variable)
           ELSE IF ~IsNil(ev.Value)
             THEN [val |-> ev.Value, err |-> NoErr]
           ELSE [val |-> None,
                 err |-> getEnvVariableValueRequiredError(ev.Variable)]

EnvBoolSlice_Get(ev, environ) ==
  IF EnvBoolSlice_IsZero(ev)
    THEN [val |-> None, err |-> ErrEnvironmentValueRequired]
  ELSE LET l     == IF HasVariable(ev)
                      THEN LookupEnv(environ, Deref(ev.Variable))
                      ELSE [value |-> EmptyString, ok |-> FALSE]
           value == l.value
       IN  IF HasVariable(ev) /\ value # EmptyString
             THEN parseBoolSliceFromStringWithErrorPrefix(value, ev.Variable)
           ELSE IF ~IsNil(ev.Value)
             THEN [val |-> ev.Value, err |-> NoErr]
           ELSE IF l.ok
             THEN [val |-> Some(<<>>), err |-> NoErr]
           ELSE [val |-> None,
                 err |-> getEnvVariableValueRequiredError(ev.Variable)]

EnvBoolSlice_GetCustom(ev, environ, getFunc) ==
  IF EnvBoolSlice_IsZero(ev)
    THEN [val |-> None, err |-> ErrEnvironmentValueRequired, calls |-> <<>>]
  ELSE LET s     == IF HasVariable(ev)
                      THEN CallSource(getFunc, environ, Deref(ev.Variable))
                      ELSE [value |-> EmptyString, err |-> NoErr]
           value == s.value
           calls == IF HasVariable(ev) THEN <<Deref(ev.Variable)>> ELSE <<>>
       IN  IF HasVariable(ev) /\ s.err # NoErr
             THEN [val |-> None, err |-> s.err, calls |-> calls]
           ELSE IF HasVariable(ev) /\ value # EmptyString
             THEN WithCalls(parseBoolSliceFromStringWithErrorPrefix(value, ev.Variable), calls)
           ELSE IF ~IsNil(ev.Value)
             THEN [val |-> ev.Value, err |-> NoErr, calls |-> calls]
           ELSE [val |-> None,
                 err |-> getEnvVariableValueRequiredError(ev.Variable),
                 calls |-> calls]

\* The map methods and the typed map parsers they call give the set of their
\* possible results (the typed parsers range over a Go map).

EnvMapString_IsZero(ev) ==
  (IsNil(ev.Variable) \/ Deref(ev.Variable) = EmptyString) /\ IsNil(ev.Value)

EnvMapString_Get(ev, environ) ==
  LET rawValue == IF HasVariable(ev)
                    THEN Getenv(environ, Deref(ev.Variable))
                    ELSE EmptyString
  IN  IF HasVariable(ev) /\ rawValue # EmptyString
        THEN {ParseStringMapFromString(rawValue)}
        ELSE {[val |-> ev.Value, err |-> NoErr]}

EnvMapString_GetCustom(ev, environ, getFunc) ==
  LET s        == IF HasVariable(ev)
                    THEN CallSource(getFunc, environ, Deref(ev.Variable))
                    ELSE [value |-> EmptyString, err |-> NoErr]
      rawValue == s.value
      calls    == IF HasVariable(ev) THEN <<Deref(ev.Variable)>> ELSE <<>>
  IN  IF HasVariable(ev) /\ s.err # NoErr
        THEN {[val |-> None, err |-> s.err, calls |-> calls]}
      ELSE IF HasVariable(ev) /\ rawValue # EmptyString
        THEN {WithCalls(r, calls) : r \in {ParseStringMapFromString(rawValue)}}
      ELSE {[val |-> ev.Value, err |-> NoErr, calls |-> calls]}

EnvMapInt_IsZero(ev) ==
  (IsNil(ev.Variable) \/ Deref(ev.Variable) = EmptyString) /\ IsNil(ev.Value)

EnvMapInt_Get(ev, environ) ==
  LET rawValue == IF HasVariable(ev)
                    THEN Getenv(environ, Deref(ev.Variable))
                    ELSE EmptyString
  IN  IF HasVariable(ev) /\ rawValue # EmptyString
        THEN ParseIntegerMapFromString("int64", rawValue)
        ELSE {[val |-> ev.Value, err |-> NoErr]}

\* Mutation of EnvMapInt.GetCustom: a literal, when present, comes first.
EnvMapInt_GetCustom_LiteralFirst(ev, environ, getFunc) ==
  LET s        == IF HasVariable(ev)
                    THEN CallSource(getFunc, environ, Deref(ev.Variable))
                    ELSE [value |-> EmptyString, err |-> NoErr]
      rawValue == s.value
      calls    == IF HasVariable(ev) THEN <<Deref(ev.Variable)>> ELSE <<>>
  IN  IF HasVariable(ev) /\ s.err # NoErr
        THEN {[val |-> None, err |-> s.err, calls |-> calls]}
      ELSE IF ~IsNil(ev.Value)
        THEN {[val |-> ev.Value, err |-> NoErr, calls |-> calls]}
      ELSE IF HasVariable(ev) /\ rawValue # EmptyString
        THEN {WithCalls(r, calls) : r \in ParseIntegerMapFromString("int64", rawValue)}
      ELSE {[val |-> ev.Value, err |-> NoErr, calls |-> calls]}

EnvMapInt_GetCustom(ev, environ, getFunc) ==
  LET s        == IF HasVariable(ev)
                    THEN CallSource(getFunc, environ, Deref(ev.Variable))
                    ELSE [value |-> EmptyString, err |-> NoErr]
      rawValue == s.value
      calls    == IF HasVariable(ev) THEN <<Deref(ev.Variable)>> ELSE <<>>
  IN  IF HasVariable(ev) /\ s.err # NoErr
        THEN {[val |-> None, err |-> s.err, calls |-> calls]}
      ELSE IF HasVariable(ev) /\ rawValue # EmptyString
        THEN {WithCalls(r, calls) : r \in ParseIntegerMapFromString("int64", rawValue)}
      ELSE {[val |-> ev.Value, err |-> NoErr, calls |-> calls]}

EnvMapFloat_IsZero(ev) ==
  (IsNil(ev.Variable) \/ Deref(ev.Variable) = EmptyString) /\ IsNil(ev.Value)

EnvMapFloat_Get(ev, environ) ==
  LET rawValue == IF HasVariable(ev)
                    THEN Getenv(environ, Deref(ev.Variable))
                    ELSE EmptyString
  IN  IF HasVariable(ev) /\ rawValue # EmptyString
        THEN ParseFloatMapFromString(rawValue)
        ELSE {[val |-> ev.Value, err |-> NoErr]}

EnvMapFloat_GetCustom(ev, environ, getFunc) ==
  LET s        == IF HasVariable(ev)
                    THEN CallSource(getFunc, environ, Deref(ev.Variable))
                    ELSE [value |-> EmptyString, err |-> NoErr]
      rawValue == s.value
      calls    == IF HasVariable(ev) THEN <<Deref(ev.Variable)>> ELSE <<>>
  IN  IF HasVariable(ev) /\ s.err # NoErr
        THEN {[val |-> None, err |-> s.err, calls |-> calls]}
      ELSE IF HasVariable(ev) /\ rawValue # EmptyString
        THEN {WithCalls(r, calls) : r \in ParseFloatMapFromString(rawValue)}
      ELSE {[val |-> ev.Value, err |-> NoErr, calls |-> calls]}

\* Mutation of EnvMapBool.IsZero: an empty literal counts as no literal.
EnvMapBool_IsZero_EmptyIsZero(ev) ==
  /\ (IsNil(ev.Variable) \/ Deref(ev.Variable) = EmptyString)
  /\ (IsNil(ev.Value) \/ DOMAIN Deref(ev.Value) = {})

EnvMapBool_IsZero(ev) ==
  (IsNil(ev.Variable) \/ Deref(ev.Variable) = EmptyString) /\ IsNil(ev.Value)

EnvMapBool_Get(ev, environ) ==
  LET rawValue == IF HasVariable(ev)
                    THEN Getenv(environ, Deref(ev.Variable))
                    ELSE EmptyString
  IN  IF HasVariable(ev) /\ rawValue # EmptyString
        THEN ParseBoolMapFromString(rawValue)
        ELSE {[val |-> ev.Value, err |-> NoErr]}

EnvMapBool_GetCustom(ev, environ, getFunc) ==
  LET s        == IF HasVariable(ev)
                    THEN CallSource(getFunc, environ, Deref(ev.Variable))
                    ELSE [value |-> EmptyString, err |-> NoErr]
      rawValue == s.value
      calls    == IF HasVariable(ev) THEN <<Deref(ev.Variable)>> ELSE <<>>
  IN  IF HasVariable(ev) /\ s.err # NoErr
        THEN {[val |-> None, err |-> s.err, calls |-> calls]}
      ELSE IF HasVariable(ev) /\ rawValue # EmptyString
        THEN {WithCalls(r, calls) : r \in ParseBoolMapFromString(rawValue)}
      ELSE {[val |-> ev.Value, err |-> NoErr, calls |-> calls]}

EnvAny_IsZero(ev) ==
  (IsNil(ev.Variable) \/ Deref(ev.Variable) = EmptyString) /\ IsNil(ev.Value)

\* Mutation of EnvAny.Get: a raw value that does not decode gives the literal.
EnvAny_Get_FallsBackOnDecodeError(ev, environ) ==
  LET rawValue == IF HasVariable(ev)
                    THEN Getenv(environ, Deref(ev.Variable))
                    ELSE EmptyString
  IN  IF HasVariable(ev) /\ rawValue # EmptyString
           /\ JSONUnmarshal(rawValue).err = NoErr
        THEN JSONUnmarshal(rawValue)
        ELSE [val |-> ev.Value, err |-> NoErr]

EnvAny_Get(ev, environ) ==
  LET rawValue == IF HasVariable(ev)
                    THEN Getenv(environ, Deref(ev.Variable))
                    ELSE EmptyString
  IN  IF HasVariable(ev) /\ rawValue # EmptyString
        THEN JSONUnmarshal(rawValue)
        ELSE [val |-> ev.Value, err |-> NoErr]

\* Mutation of EnvAny.GetCustom: an empty name is a name, and the source is
\* asked for it.
EnvAny_GetCustom_AsksForEmptyName(ev, environ, getFunc) ==
  LET named    == ~IsNil(ev.Variable)
      s        == IF named
                    THEN CallSource(getFunc, environ, Deref(ev.Variable))
                    ELSE [value |-> EmptyString, err |-> NoErr]
      rawValue == s.value
      calls    == IF named THEN <<Deref(ev.Variable)>> ELSE <<>>
  IN  IF named /\ s.err # NoErr
        THEN [val |-> None, err |-> s.err, calls |-> calls]
      ELSE IF named /\ rawValue # EmptyString
        THEN WithCalls(JSONUnmarshal(rawValue), calls)
      ELSE [val |-> ev.Value, err |-> NoErr, calls |-> calls]

\* Mutation of EnvAny.GetCustom: an error of the source gives the literal.
EnvAny_GetCustom_IgnoresSourceError(ev, environ, getFunc) ==
  LET s        == IF HasVariable(ev)
                    THEN CallSource(getFunc, environ, Deref(ev.Variable))
                    ELSE [value |-> EmptyString, err |-> NoErr]
      rawValue == s.value
      calls    == IF HasVariable(ev) THEN <<Deref(ev.Variable)>> ELSE <<>>
  IN  IF HasVariable(ev) /\ s.err = NoErr /\ rawValue # EmptyString
        THEN WithCalls(JSONUnmarshal(rawValue), calls)
        ELSE [val |-> ev.Value, err |-> NoErr, calls |-> calls]

EnvAny_GetCustom(ev, environ, getFunc) ==
  LET s        == IF HasVariable(ev)
                    THEN CallSource(getFunc, environ, Deref(ev.Variable))
                    ELSE [value |-> EmptyString, err |-> NoErr]
      rawValue == s.value
      calls    == IF HasVariable(ev) THEN <<Deref(ev.Variable)>> ELSE <<>>
  IN  IF HasVariable(ev) /\ s.err # NoErr
        THEN [val |-> None, err |-> s.err, calls |-> calls]
      ELSE IF HasVariable(ev) /\ rawValue # EmptyString
        THEN WithCalls(JSONUnmarshal(rawValue), calls)
      ELSE [val |-> ev.Value, err |-> NoErr, calls |-> calls]

(***************************************************************************)
(* Equal.  The slice methods compare the literals with slices.Equal, the   *)
(* map methods and EnvAny compare nil with nil and otherwise use           *)
(* maps.Equal and reflect.DeepEqual; all compare the names as pointers to  *)
(* strings.                                                                *)
(***************************************************************************)
\* The float64 that is not a number; NormFloat never gives this form.
NaN == [mant |-> 0, exp |-> 1]

\* Go's == on two values of the element type T: a NaN equals nothing.
ElemEq(T, a, b) ==
  IF T = "float64" THEN a # NaN /\ b # NaN /\ a = b ELSE a = b

\* len of a nilable slice
SliceLen(s) == IF IsNil(s) THEN 0 ELSE Len(Deref(s))

\* slices.Equal(s1, s2): the lengths are equal and the items are pairwise ==,
\* so that a nil slice equals an empty one.
SlicesEqual(T, s1, s2) ==
  /\ SliceLen(s1) = SliceLen(s2)
  /\ \A i \in 1..SliceLen(s1) : ElemEq(T, Deref(s1)[i], Deref(s2)[i])

\* maps.Equal(m1, m2) on two maps that are not nil
MapsEqual(T, m1, m2) ==
  /\ Cardinality(DOMAIN m1) = Cardinality(DOMAIN m2)
  /\ \A k \in DOMAIN m1 : k \in DOMAIN m2 /\ ElemEq(T, m1[k], m2[k])

\* reflect.DeepEqual on two values of type any that are not nil
DeepEqual(a, b) ==
  /\ a.type = b.type
  /\ IF a.type = "float64" THEN ElemEq("float64", a.f, b.f) ELSE a = b
\* The Equal methods of the scalar kinds, as the specification states them:
\* the literals match exactly (absent with absent, present with the same
\* value) and the names match (absent with absent, present with the same
\* string).
EnvString_Equal(ev, target) ==
  LET isSameValue ==
        \/ (IsNil(ev.Value) /\ IsNil(target.Value))
        \/ (~IsNil(ev.Value) /\ ~IsNil(target.Value)
              /\ Deref(ev.Value) = Deref(target.Value))
  IN  IF ~isSameValue THEN FALSE
      ELSE \/ (IsNil(ev.Variable) /\ IsNil(target.Variable))
           \/ (~IsNil(ev.Variable) /\ ~IsNil(target.Variable)
                 /\ Deref(ev.Variable) = Deref(target.Variable))

EnvInt_Equal(ev, target) ==
  LET isSameValue ==
        \/ (IsNil(ev.Value) /\ IsNil(target.Value))
        \/ (~IsNil(ev.Value) /\ ~IsNil(target.Value)
              /\ Deref(ev.Value) = Deref(target.Value))
  IN  IF ~isSameValue THEN FALSE
      ELSE \/ (IsNil(ev.Variable) /\ IsNil(target.Variable))
           \/ (~IsNil(ev.Variable) /\ ~IsNil(target.Variable)
                 /\ Deref(ev.Variable) = Deref(target.Variable))

EnvBool_Equal(ev, target) ==
  LET isSameValue ==
        \/ (IsNil(ev.Value) /\ IsNil(target.Value))
        \/ (~IsNil(ev.Value) /\ ~IsNil(target.Value)
              /\ Deref(ev.Value) = Deref(target.Value))
  IN  IF ~isSameValue THEN FALSE
      ELSE \/ (IsNil(ev.Variable) /\ IsNil(target.Variable))
           \/ (~IsNil(ev.Variable) /\ ~IsNil(target.Variable)
                 /\ Deref(ev.Variable) = Deref(target.Variable))

EnvFloat_Equal(ev, target) ==
  LET isSameValue ==
        \/ (IsNil(ev.Value) /\ IsNil(target.Value))
        \/ (~IsNil(ev.Value) /\ ~IsNil(target.Value)
              /\ Deref(ev.Value) = Deref(target.Value))
  IN  IF ~isSameValue THEN FALSE
      ELSE \/ (IsNil(ev.Variable) /\ IsNil(target.Variable))
           \/ (~IsNil(ev.Variable) /\ ~IsNil(target.Variable)
                 /\ Deref(ev.Variable) = Deref(target.Variable))

EnvStringSlice_Equal(ev, target) ==
  LET isSameValue == SlicesEqual("string", ev.Value, target.Value)
  IN  IF ~isSameValue THEN FALSE
      ELSE \/ (IsNil(ev.Variable) /\ IsNil(target.Variable))
           \/ (~IsNil(ev.Variable) /\ ~IsNil(target.Variable)
                 /\ Deref(ev.Variable) = Deref(target.Variable))

EnvIntSlice_Equal(ev, target) ==
  LET isSameValue == SlicesEqual("int64", ev.Value, target.Value)
  IN  IF ~isSameValue THEN FALSE
      ELSE \/ (IsNil(ev.Variable) /\ IsNil(target.Variable))
           \/ (~IsNil(ev.Variable) /\ ~IsNil(target.Variable)
                 /\ Deref(ev.Variable) = Deref(target.Variable))

EnvFloatSlice_Equal(ev, target) ==
  LET isSameValue == SlicesEqual("float64", ev.Value, target.Value)
  IN  IF ~isSameValue THEN FALSE
      ELSE \/ (IsNil(ev.Variable) /\ IsNil(target.Variable))
           \/ (~IsNil(ev.Variable) /\ ~IsNil(target.Variable)
                 /\ Deref(ev.Variable) = Deref(target.Variable))

EnvBoolSlice_Equal(ev, target) ==
  LET isSameValue == SlicesEqual("bool", ev.Value, target.Value)
  IN  IF ~isSameValue THEN FALSE
      ELSE \/ (IsNil(ev.Variable) /\ IsNil(target.Variable))
           \/ (~IsNil(ev.Variable) /\ ~IsNil(target.Variable)
                 /\ Deref(ev.Variable) = Deref(target.Variable))

\* Mutation of EnvMapString.Equal: the literals are compared with maps.Equal
\* alone, for which a nil map equals an empty one.
EnvMapString_Equal_NilEqualsEmpty(ev, target) ==
  LET isSameEnv ==
        \/ (IsNil(ev.Variable) /\ IsNil(target.Variable))
        \/ (~IsNil(ev.Variable) /\ ~IsNil(target.Variable)
              /\ Deref(ev.Variable) = Deref(target.Variable))
      m1 == IF IsNil(ev.Value) THEN EmptyMap ELSE Deref(ev.Value)
      m2 == IF IsNil(target.Value) THEN EmptyMap ELSE Deref(target.Value)
  IN  IF ~isSameEnv THEN FALSE ELSE MapsEqual("string", m1, m2)

EnvMapString_Equal(ev, target) ==
  LET isSameEnv ==
        \/ (IsNil(ev.Variable) /\ IsNil(target.Variable))
        \/ (~IsNil(ev.Variable) /\ ~IsNil(target.Variable)
              /\ Deref(ev.Variable) = Deref(target.Variable))
  IN  IF ~isSameEnv THEN FALSE
      ELSE \/ (IsNil(ev.Value) /\ IsNil(target.Value))
           \/ (~IsNil(ev.Value) /\ ~IsNil(target.Value)
                 /\ MapsEqual("string", Deref(ev.Value), Deref(target.Value)))

\* Mutation of EnvMapInt.Equal: the variable names are compared, the literals
\* are not.
EnvMapInt_Equal_NamesOnly(ev, target) ==
  \/ IsNil(ev.Variable) /\ IsNil(target.Variable)
  \/ /\ ~IsNil(ev.Variable)
     /\ ~IsNil(target.Variable)
     /\ Deref(ev.Variable) = Deref(target.Variable)

EnvMapInt_Equal(ev, target) ==
  LET isSameEnv ==
        \/ (IsNil(ev.Variable) /\ IsNil(target.Variable))
        \/ (~IsNil(ev.Variable) /\ ~IsNil(target.Variable)
              /\ Deref(ev.Variable) = Deref(target.Variable))
  IN  IF ~isSameEnv THEN FALSE
      ELSE \/ (IsNil(ev.Value) /\ IsNil(target.Value))
           \/ (~IsNil(ev.Value) /\ ~IsNil(target.Value)
                 /\ MapsEqual("int64", Deref(ev.Value), Deref(target.Value)))

EnvMapFloat_Equal(ev, target) ==
  LET isSameEnv ==
        \/ (IsNil(ev.Variable) /\ IsNil(target.Variable))
        \/ (~IsNil(ev.Variable) /\ ~IsNil(target.Variable)
              /\ Deref(ev.Variable) = Deref(target.Variable))
  IN  IF ~isSameEnv THEN FALSE
      ELSE \/ (IsNil(ev.Value) /\ IsNil(target.Value))
           \/ (~IsNil(ev.Value) /\ ~IsNil(target.Value)
                 /\ MapsEqual("float64", Deref(ev.Value), Deref(target.Value)))

EnvMapBool_Equal(ev, target) ==
  LET isSameEnv ==
        \/ (IsNil(ev.Variable) /\ IsNil(target.Variable))
        \/ (~IsNil(ev.Variable) /\ ~IsNil(target.Variable)
              /\ Deref(ev.Variable) = Deref(target.Variable))
  IN  IF ~isSameEnv THEN FALSE
      ELSE \/ (IsNil(ev.Value) /\ IsNil(target.Value))
           \/ (~IsNil(ev.Value) /\ ~IsNil(target.Value)
                 /\ MapsEqual("bool", Deref(ev.Value), Deref(target.Value)))

\* Mutation of EnvAny.Equal: the names are not compared.
EnvAny_Equal_IgnoresVariable(ev, target) ==
  \/ (IsNil(ev.Value) /\ IsNil(target.Value))
  \/ (~IsNil(ev.Value) /\ ~IsNil(target.Value)
        /\ DeepEqual(Deref(ev.Value), Deref(target.Value)))

EnvAny_Equal(ev, target) ==
  LET isSameValue ==
        \/ (IsNil(ev.Value) /\ IsNil(target.Value))
        \/ (~IsNil(ev.Value) /\ ~IsNil(target.Value)
              /\ DeepEqual(Deref(ev.Value), Deref(target.Value)))
  IN  IF ~isSameValue THEN FALSE
      ELSE \/ (IsNil(ev.Variable) /\ IsNil(target.Variable))
           \/ (~IsNil(ev.Variable) /\ ~IsNil(target.Variable)
                 /\ Deref(ev.Variable) = Deref(target.Variable))

(***************************************************************************)
(* The state machine: one typed value, the process environment, and the    *)
(* outcome of the last method call on the typed value.                     *)
(***************************************************************************)
VARIABLES ev, environ, res

vars == <<ev, environ, res>>

ScalarKinds == {"EnvString", "EnvInt", "EnvBool", "EnvFloat"}

SliceKinds == {"EnvStringSlice", "EnvIntSlice", "EnvFloatSlice", "EnvBoolSlice"}

MapKinds == {"EnvMapString", "EnvMapInt", "EnvMapFloat", "EnvMapBool"}

Kinds == ScalarKinds \cup SliceKinds \cup MapKinds \cup {"EnvAny"}

Key1 == <<"k">>

\* The literals a typed value of each kind is built with: an empty-but-present
\* one and a non-empty one, and for the kinds that hold a float64 and have
\* their Equal in the source one with a NaN.
Literals(kind) ==
  CASE kind = "EnvString"      -> {EmptyString, <<"f", "b">>}
    [] kind = "EnvInt"         -> {0, 5}
    [] kind = "EnvBool"        -> {FALSE, TRUE}
    [] kind = "EnvFloat"       -> {ZeroFloat, NormFloat(15, -1)}
    [] kind = "EnvStringSlice" -> {<<>>, <<<<"f", "b">>>>}
    [] kind = "EnvIntSlice"    -> {<<>>, <<100>>}
    [] kind = "EnvFloatSlice"  -> {<<>>, <<NormFloat(15, -1)>>, <<NaN>>}
    [] kind = "EnvBoolSlice"   -> {<<>>, <<TRUE>>}
    [] kind = "EnvMapString"   -> {EmptyMap, MapPut(EmptyMap, Key1, <<"f", "b">>)}
    [] kind = "EnvMapInt"      -> {EmptyMap, MapPut(EmptyMap, Key1, 5)}
    [] kind = "EnvMapFloat"    ->
         {EmptyMap, MapPut(EmptyMap, Key1, NormFloat(15, -1)),
          MapPut(EmptyMap, Key1, NaN)}
    [] kind = "EnvMapBool"     -> {EmptyMap, MapPut(EmptyMap, Key1, TRUE)}
    [] kind = "EnvAny"         ->
         {AnyString(EmptyString), AnyBool(TRUE), AnyFloat(NaN)}

\* The defaults handed to GetOrDefault: the zero value and a value that is no
\* literal and no parse result.
Defaults(kind) ==
  CASE kind = "EnvString" -> {EmptyString, <<"d">>}
    [] kind = "EnvInt"    -> {0, 7}
    [] kind = "EnvBool"   -> {FALSE, TRUE}
    [] kind = "EnvFloat"  -> {ZeroFloat, NormFloat(25, -1)}

\* Every struct value {Value, Variable} of every kind: the New<Kind>,
\* New<Kind>Value and New<Kind>Variable constructors, the zero struct, and a
\* struct decoded with an empty variable name.
TypedValuesOf(k) ==
  {[kind |-> k, Value |-> v, Variable |-> n] :
     v \in {None} \cup {Some(x) : x \in Literals(k)},
     n \in {None, Some(EmptyString), Some(VarA)}}

NoResult == [op |-> "none"]

Init ==
  /\ \E k \in Kinds : ev \in TypedValuesOf(k)
  /\ environ = [n \in Names |-> None]
  /\ res = NoResult

\* os.Setenv(key, value): the value is empty, extends the current one by a
\* character, or is one of the samples.
Setenv ==
  \E key \in Names :
    LET cur == LookupEnv(environ, key).value
    IN  \E value \in {EmptyString} \cup RawSamples \cup
                     {Append(cur, c) : c \in {x \in Alphabet : Len(cur) < MaxRawLen}} :
          /\ environ' = [environ EXCEPT ![key] = Some(value)]
          /\ res' = NoResult
          /\ UNCHANGED ev

\* os.Unsetenv(key)
Unsetenv ==
  \E key \in Names :
    /\ ~IsNil(environ[key])
    /\ environ' = [environ EXCEPT ![key] = None]
    /\ res' = NoResult
    /\ UNCHANGED ev

GetOutcomes(e, env) ==
  CASE e.kind = "EnvString"      -> {EnvString_Get(e, env)}
    [] e.kind = "EnvInt"         -> {EnvInt_Get(e, env)}
    [] e.kind = "EnvBool"        -> {EnvBool_Get(e, env)}
    [] e.kind = "EnvFloat"       -> {EnvFloat_Get(e, env)}
    [] e.kind = "EnvStringSlice" -> {EnvStringSlice_Get(e, env)}
    [] e.kind = "EnvIntSlice"    -> {EnvIntSlice_Get(e, env)}
    [] e.kind = "EnvFloatSlice"  -> {EnvFloatSlice_Get(e, env)}
    [] e.kind = "EnvBoolSlice"   -> {EnvBoolSlice_Get(e, env)}
    [] e.kind = "EnvMapString"   -> EnvMapString_Get(e, env)
    [] e.kind = "EnvMapInt"      -> EnvMapInt_Get(e, env)
    [] e.kind = "EnvMapFloat"    -> EnvMapFloat_Get(e, env)
    [] e.kind = "EnvMapBool"     -> EnvMapBool_Get(e, env)
    [] e.kind = "EnvAny"         -> {EnvAny_Get(e, env)}

GetOrDefaultOutcome(e, env, d) ==
  CASE e.kind = "EnvString" -> EnvString_GetOrDefault(e, env, d)
    [] e.kind = "EnvInt"    -> EnvInt_GetOrDefault(e, env, d)
    [] e.kind = "EnvBool"   -> EnvBool_GetOrDefault(e, env, d)
    [] e.kind = "EnvFloat"  -> EnvFloat_GetOrDefault(e, env, d)

GetCustomOutcomes(e, env, getFunc) ==
  CASE e.kind = "EnvString"      -> {EnvString_GetCustom(e, env, getFunc)}
    [] e.kind = "EnvInt"         -> {EnvInt_GetCustom(e, env, getFunc)}
    [] e.kind = "EnvBool"        -> {EnvBool_GetCustom(e, env, getFunc)}
    [] e.kind = "EnvFloat"       -> {EnvFloat_GetCustom(e, env, getFunc)}
    [] e.kind = "EnvStringSlice" -> {EnvStringSlice_GetCustom(e, env, getFunc)}
    [] e.kind = "EnvIntSlice"    -> {EnvIntSlice_GetCustom(e, env, getFunc)}
    [] e.kind = "EnvFloatSlice"  -> {EnvFloatSlice_GetCustom(e, env, getFunc)}
    [] e.kind = "EnvBoolSlice"   -> {EnvBoolSlice_GetCustom(e, env, getFunc)}
    [] e.kind = "EnvMapString"   -> EnvMapString_GetCustom(e, env, getFunc)
    [] e.kind = "EnvMapInt"      -> EnvMapInt_GetCustom(e, env, getFunc)
    [] e.kind = "EnvMapFloat"    -> EnvMapFloat_GetCustom(e, env, getFunc)
    [] e.kind = "EnvMapBool"     -> EnvMapBool_GetCustom(e, env, getFunc)
    [] e.kind = "EnvAny"         -> {EnvAny_GetCustom(e, env, getFunc)}

\* ev.Get()
Get ==
  \E r \in GetOutcomes(ev, environ) :
    /\ res' = [op |-> "Get", val |-> r.val, err |-> r.err]
    /\ UNCHANGED <<ev, environ>>

\* ev.GetOrDefault(defaultValue), a method of the scalar kinds
GetOrDefault ==
  /\ ev.kind \in ScalarKinds
  /\ \E defaultValue \in Defaults(ev.kind) :
       LET r == GetOrDefaultOutcome(ev, environ, defaultValue)
       IN  res' = [op |-> "GetOrDefault", defaultValue |-> defaultValue,
                   val |-> r.val, err |-> r.err]
  /\ UNCHANGED <<ev, environ>>

\* ev.GetCustom(getFunc)
GetCustom ==
  \E getFunc \in Sources :
    \E r \in GetCustomOutcomes(ev, environ, getFunc) :
      /\ res' = [op |-> "GetCustom", getFunc |-> getFunc,
                 val |-> r.val, err |-> r.err, calls |-> r.calls]
      /\ UNCHANGED <<ev, environ>>

IsZeroOutcome(e) ==
  CASE e.kind = "EnvString"      -> EnvString_IsZero(e)
    [] e.kind = "EnvInt"         -> EnvInt_IsZero(e)
    [] e.kind = "EnvBool"        -> EnvBool_IsZero(e)
    [] e.kind = "EnvFloat"       -> EnvFloat_IsZero(e)
    [] e.kind = "EnvStringSlice" -> EnvStringSlice_IsZero(e)
    [] e.kind = "EnvIntSlice"    -> EnvIntSlice_IsZero(e)
    [] e.kind = "EnvFloatSlice"  -> EnvFloatSlice_IsZero(e)
    [] e.kind = "EnvBoolSlice"   -> EnvBoolSlice_IsZero(e)
    [] e.kind = "EnvMapString"   -> EnvMapString_IsZero(e)
    [] e.kind = "EnvMapInt"      -> EnvMapInt_IsZero(e)
    [] e.kind = "EnvMapFloat"    -> EnvMapFloat_IsZero(e)
    [] e.kind = "EnvMapBool"     -> EnvMapBool_IsZero(e)
    [] e.kind = "EnvAny"         -> EnvAny_IsZero(e)

EqualOutcome(e, target) ==
  CASE e.kind = "EnvString"      -> EnvString_Equal(e, target)
    [] e.kind = "EnvInt"         -> EnvInt_Equal(e, target)
    [] e.kind = "EnvBool"        -> EnvBool_Equal(e, target)
    [] e.kind = "EnvFloat"       -> EnvFloat_Equal(e, target)
    [] e.kind = "EnvStringSlice" -> EnvStringSlice_Equal(e, target)
    [] e.kind = "EnvIntSlice"    -> EnvIntSlice_Equal(e, target)
    [] e.kind = "EnvFloatSlice"  -> EnvFloatSlice_Equal(e, target)
    [] e.kind = "EnvBoolSlice"   -> EnvBoolSlice_Equal(e, target)
    [] e.kind = "EnvMapString"   -> EnvMapString_Equal(e, target)
    [] e.kind = "EnvMapInt"      -> EnvMapInt_Equal(e, target)
    [] e.kind = "EnvMapFloat"    -> EnvMapFloat_Equal(e, target)
    [] e.kind = "EnvMapBool"     -> EnvMapBool_Equal(e, target)
    [] e.kind = "EnvAny"         -> EnvAny_Equal(e, target)

\* ev.IsZero()
IsZero ==
  /\ res' = [op |-> "IsZero", val |-> IsZeroOutcome(ev)]
  /\ UNCHANGED <<ev, environ>>

\* ev.Equal(target), with target any typed value of the same kind
Equal ==
  \E target \in TypedValuesOf(ev.kind) :
    /\ res' = [op |-> "Equal", target |-> target, val |-> EqualOutcome(ev, target)]
    /\ UNCHANGED <<ev, environ>>

Next ==
  Setenv \/ Unsetenv \/ Get \/ GetOrDefault \/ GetCustom \/ IsZero \/ Equal

Spec == Init /\ [][Next]_vars

(***************************************************************************)
(* Vocabulary of the properties.                                           *)
(***************************************************************************)
\* The typed value names a variable: the name is present and not empty.
NamesVariable == ~IsNil(ev.Variable) /\ Deref(ev.Variable) # EmptyString

LiteralPresent == ~IsNil(ev.Value)

\* The typed value is zero: no literal, and the name absent or empty.
ZeroTypedValue ==
  IsNil(ev.Value) /\ (IsNil(ev.Variable) \/ Deref(ev.Variable) = EmptyString)

\* The literal as a method returns it: the scalar methods return the value
\* pointed to, the others the nilable collection or interface itself.
LiteralResult == IF ev.kind \in ScalarKinds THEN Deref(ev.Value) ELSE ev.Value

Resolved == res.op \in {"Get", "GetCustom"}

\* What the source of the last Get or GetCustom gives for the named variable:
\* the process environment for Get, the result of getFunc for GetCustom.
SourceReturn ==
  IF res.op = "GetCustom"
    THEN CallSource(res.getFunc, environ, Deref(ev.Variable))
    ELSE [value |-> Getenv(environ, Deref(ev.Variable)), err |-> NoErr]

VariableUndefined == ~LookupEnv(environ, Deref(ev.Variable)).ok

VariableDefinedEmpty ==
  /\ LookupEnv(environ, Deref(ev.Variable)).ok
  /\ LookupEnv(environ, Deref(ev.Variable)).value = EmptyString

\* The parsed forms of a raw string for the kind of the typed value: the
\* results its parser can give.
ParsedForms(raw) ==
  CASE ev.kind = "EnvString"      -> {[val |-> raw, err |-> NoErr]}
    [] ev.kind = "EnvInt"         -> {ParseInt(raw)}
    [] ev.kind = "EnvBool"        -> {ParseBool(raw)}
    [] ev.kind = "EnvFloat"       -> {ParseFloat(raw)}
    [] ev.kind = "EnvStringSlice" ->
         {[val |-> Some(ParseStringSliceFromString(raw)), err |-> NoErr]}
    [] ev.kind = "EnvIntSlice"    ->
         {parseIntSliceFromStringWithErrorPrefix("int64", raw, ev.Variable)}
    [] ev.kind = "EnvFloatSlice"  ->
         {parseFloatSliceFromStringWithErrorPrefix(raw, ev.Variable)}
    [] ev.kind = "EnvBoolSlice"   ->
         {parseBoolSliceFromStringWithErrorPrefix(raw, ev.Variable)}
    [] ev.kind = "EnvMapString"   -> {ParseStringMapFromString(raw)}
    [] ev.kind = "EnvMapInt"      -> ParseIntegerMapFromString("int64", raw)
    [] ev.kind = "EnvMapFloat"    -> ParseFloatMapFromString(raw)
    [] ev.kind = "EnvMapBool"     -> ParseBoolMapFromString(raw)
    [] ev.kind = "EnvAny"         -> {JSONUnmarshal(raw)}

ParsesOk(raw) == \A p \in ParsedForms(raw) : p.err = NoErr

\* The source of the last Get or GetCustom returned a non-empty raw string and
\* no error.
SourceGaveRaw ==
  /\ Resolved
  /\ NamesVariable
  /\ SourceReturn.err = NoErr
  /\ SourceReturn.value # EmptyString

\* The source of the last Get or GetCustom returned the empty string and no
\* error; for Get, the variable is defined with the empty string.
SourceGaveEmpty ==
  /\ Resolved
  /\ NamesVariable
  /\ SourceReturn.err = NoErr
  /\ SourceReturn.value = EmptyString
  /\ (res.op = "Get" => VariableDefinedEmpty)

IsVariableValueRequired(err) == ErrorsIs(err, ErrEnvironmentVariableValueRequired)

(***************************************************************************)
(* C1..C10: precedence, fallback and error propagation of the resolvers.   *)
(***************************************************************************)
\* C1: for every kind, under Get and GetCustom, when the typed value names a
\* variable and the source returns a non-empty raw string that parses, the
\* result is the parsed form of the raw string with no error, whether or not
\* a literal is present.
C1_VariableTakesPrecedence ==
  (SourceGaveRaw /\ ParsesOk(SourceReturn.value)) =>
    /\ res.err = NoErr
    /\ \E p \in ParsedForms(SourceReturn.value) : res.val = p.val

\* A GetCustom on a map with a literal took the parsed variable value, which
\* differs from the literal.
C1_Witness ==
  /\ res.op = "GetCustom"
  /\ ev.kind = "EnvMapInt"
  /\ LiteralPresent
  /\ SourceGaveRaw
  /\ ParsesOk(SourceReturn.value)
  /\ res.val # ev.Value

\* C2 as stated: for every kind, under Get and GetCustom with any source, when
\* the typed value names a variable, the source returns the empty string with
\* no error and a literal is present, the result is the literal.
C2_EmptyNeverOverridesLiteral ==
  (SourceGaveEmpty /\ LiteralPresent) =>
    (res.err = NoErr /\ res.val = LiteralResult)

\* C2 amended: the same, except that EnvString.GetCustom returns the source's
\* empty string, with no error, and not the literal.
C2_EmptyFallsBackExceptStringCustom ==
  (SourceGaveEmpty /\ LiteralPresent) =>
    /\ res.err = NoErr
    /\ IF ev.kind = "EnvString" /\ res.op = "GetCustom"
         THEN res.val = EmptyString
         ELSE res.val = LiteralResult

\* A GetCustom whose source returned "" fell back to a non-zero literal.
C2_Witness ==
  /\ res.op = "GetCustom"
  /\ ev.kind = "EnvInt"
  /\ SourceGaveEmpty
  /\ LiteralPresent
  /\ res.val = 5

\* C3: when GetOSEnv is the source of GetCustom and the named variable is
\* undefined, the literal is returned with no error if one is present, and
\* otherwise the call fails with VariableValueRequired carrying the name.
C3_OSEnvUndefinedFallsBack ==
  (res.op = "GetCustom" /\ res.getFunc = "GetOSEnv" /\ NamesVariable
     /\ VariableUndefined) =>
    IF LiteralPresent
      THEN res.err = NoErr /\ res.val = LiteralResult
      ELSE IsVariableValueRequired(res.err) /\ res.err.wrap = ev.Variable

\* C4: for the scalar and slice kinds, Get on a typed value that names an
\* undefined variable and has no literal fails with VariableValueRequired,
\* not ValueRequired, and the error carries the name; for the scalar kinds
\* GetOrDefault(d) on the same value returns d with no error.
C4_UndefinedWithoutLiteral ==
  (ev.kind \in ScalarKinds \cup SliceKinds /\ NamesVariable /\ VariableUndefined
     /\ ~LiteralPresent) =>
    /\ res.op = "Get" =>
         /\ IsVariableValueRequired(res.err)
         /\ res.err # ErrEnvironmentValueRequired
         /\ res.err.wrap = ev.Variable
    /\ res.op = "GetOrDefault" =>
         (res.err = NoErr /\ res.val = res.defaultValue)

\* A GetOrDefault with a non-zero default on a scalar naming an undefined
\* variable, without literal.
C4_Witness ==
  /\ res.op = "GetOrDefault"
  /\ ev.kind = "EnvInt"
  /\ NamesVariable
  /\ VariableUndefined
  /\ ~LiteralPresent
  /\ res.val = 7

\* C5 as stated: for every scalar, slice and map kind, Get and GetCustom on a
\* zero typed value fail with ValueRequired.
C5_ZeroFailsValueRequired ==
  (Resolved /\ ev.kind \in ScalarKinds \cup SliceKinds \cup MapKinds
     /\ ZeroTypedValue) =>
    res.err = ErrEnvironmentValueRequired

\* C5 amended: for every scalar and slice kind, Get and GetCustom on a zero
\* typed value fail with ValueRequired; for the map kinds they return a nil
\* map and no error.
C5_ZeroScalarSliceFailMapNil ==
  (Resolved /\ ZeroTypedValue) =>
    /\ ev.kind \in ScalarKinds \cup SliceKinds =>
         res.err = ErrEnvironmentValueRequired
    /\ ev.kind \in MapKinds => (res.err = NoErr /\ res.val = None)

\* A GetCustom on a zero slice value whose name is the empty string.
C5_Witness ==
  /\ res.op = "GetCustom"
  /\ ev.kind = "EnvStringSlice"
  /\ ZeroTypedValue
  /\ ev.Variable = Some(EmptyString)
  /\ res.err = ErrEnvironmentValueRequired

\* C6: for every kind, when the name is absent or empty, GetCustom does not
\* call the source and, with a literal present, returns the literal with no
\* error; Get returns the literal whatever the environment holds.
C6_LiteralOnlyNeverConsultsSource ==
  (Resolved /\ ~NamesVariable) =>
    /\ res.op = "GetCustom" => res.calls = <<>>
    /\ LiteralPresent => (res.err = NoErr /\ res.val = LiteralResult)

\* A GetCustom with a failing source on a typed value with an empty name and a
\* literal, while the environment defines the variable.
C6_Witness ==
  /\ res.op = "GetCustom"
  /\ res.getFunc = "mockError"
  /\ ev.Variable = Some(EmptyString)
  /\ LiteralPresent
  /\ \E n \in Names : LookupEnv(environ, n).value # EmptyString
  /\ res.err = NoErr

\* What Get gives in the current state (the scalar Get has one result).
GetResult == CHOOSE g \in GetOutcomes(ev, environ) : TRUE

\* C7 as stated: for the scalar kinds, GetOrDefault(d) returns d with no
\* error exactly when Get fails with VariableValueRequired (or Get itself
\* gives d); when Get fails with another error GetOrDefault returns that
\* error.
C7_DefaultExactlyOnVariableValueRequired ==
  res.op = "GetOrDefault" =>
    /\ IsVariableValueRequired(GetResult.err) =>
         (res.err = NoErr /\ res.val = res.defaultValue)
    /\ (GetResult.err # NoErr /\ ~IsVariableValueRequired(GetResult.err)) =>
         res.err = GetResult.err
    /\ (res.err = NoErr /\ res.val = res.defaultValue) =>
         \/ IsVariableValueRequired(GetResult.err)
         \/ (GetResult.err = NoErr /\ GetResult.val = res.defaultValue)

\* C7 amended: the default is returned exactly when Get fails with
\* VariableValueRequired or, for EnvString only, when Get succeeds with the
\* empty string; other errors of Get are returned.
C7_DefaultOnRequiredOrEmptyString ==
  res.op = "GetOrDefault" =>
    /\ IsVariableValueRequired(GetResult.err) =>
         (res.err = NoErr /\ res.val = res.defaultValue)
    /\ (GetResult.err # NoErr /\ ~IsVariableValueRequired(GetResult.err)) =>
         res.err = GetResult.err
    /\ (res.err = NoErr /\ res.val = res.defaultValue) =>
         \/ IsVariableValueRequired(GetResult.err)
         \/ (GetResult.err = NoErr /\ GetResult.val = res.defaultValue)
         \/ (ev.kind = "EnvString" /\ GetResult.err = NoErr
               /\ GetResult.val = EmptyString)

\* A GetOrDefault with a non-zero default returned the parse error of Get.
C7_Witness ==
  /\ res.op = "GetOrDefault"
  /\ ev.kind = "EnvInt"
  /\ res.defaultValue = 7
  /\ GetResult.err.code = "NumError"
  /\ res.err = GetResult.err

\* C8 as stated: for the scalar kinds, whenever Get succeeds with v,
\* GetOrDefault(d) returns v for every d, also when v is the empty string,
\* false or 0.
C8_DefaultNeverReplacesValue ==
  (res.op = "GetOrDefault" /\ GetResult.err = NoErr) =>
    (res.err = NoErr /\ res.val = GetResult.val)

\* C8 amended: the same, except that EnvString.GetOrDefault returns d when v
\* is the empty string.
C8_DefaultReplacesOnlyEmptyString ==
  (res.op = "GetOrDefault" /\ GetResult.err = NoErr) =>
    /\ res.err = NoErr
    /\ IF ev.kind = "EnvString" /\ GetResult.val = EmptyString
         THEN res.val = res.defaultValue
         ELSE res.val = GetResult.val

\* A GetOrDefault(true) on a bool whose literal is false returned false.
C8_Witness ==
  /\ res.op = "GetOrDefault"
  /\ ev.kind = "EnvBool"
  /\ ev.Value = Some(FALSE)
  /\ res.defaultValue = TRUE
  /\ GetResult.err = NoErr
  /\ res.val = FALSE

\* C9: for every kind, when GetCustom calls the source and the source returns
\* an error, GetCustom returns that error unchanged, with or without a
\* literal.
C9_SourceErrorVerbatim ==
  (res.op = "GetCustom" /\ NamesVariable /\ SourceReturn.err # NoErr) =>
    res.err = SourceReturn.err

\* A GetCustom on a typed value with a literal returned the error of its
\* source.
C9_Witness ==
  /\ res.op = "GetCustom"
  /\ res.getFunc = "mockError"
  /\ ev.kind = "EnvFloat"
  /\ NamesVariable
  /\ LiteralPresent
  /\ res.err = MockError

\* C10: for every kind, when the typed value names a variable and the source
\* returns a non-empty raw string that does not parse, Get and GetCustom
\* return the parse or decode error, with or without a literal.
C10_ParseErrorNoFallback ==
  (SourceGaveRaw /\ ~ParsesOk(SourceReturn.value)) =>
    /\ res.err # NoErr
    /\ \E p \in ParsedForms(SourceReturn.value) : res.err = p.err

\* A Get on an EnvAny with a literal returned the decode error of the raw
\* value.
C10_Witness ==
  /\ res.op = "Get"
  /\ ev.kind = "EnvAny"
  /\ LiteralPresent
  /\ SourceGaveRaw
  /\ res.err = JSONSyntaxError

(***************************************************************************)
(* C11..C13: the zero check and Equal.                                     *)
(***************************************************************************)
\* C11: for every kind, IsZero() is true if and only if the name is absent or
\* empty and the literal is absent; a present literal that is empty (the
\* empty string, false, 0, an empty slice or map that is not nil) makes it
\* false.
C11_IsZeroIffNoNameNoLiteral ==
  res.op = "IsZero" =>
    /\ res.val <=> ((IsNil(ev.Variable) \/ Deref(ev.Variable) = EmptyString)
                      /\ ~LiteralPresent)
    /\ LiteralPresent => ~res.val

\* IsZero() on a map value with an empty name and an empty map that is not nil
\* gave false.
C11_Witness ==
  /\ res.op = "IsZero"
  /\ ev.kind = "EnvMapBool"
  /\ ev.Variable = Some(EmptyString)
  /\ ev.Value = Some(EmptyMap)
  /\ res.val = FALSE

\* The names of two typed values match: both absent, or both present with the
\* same string.
NamesMatch(a, b) ==
  \/ (IsNil(a.Variable) /\ IsNil(b.Variable))
  \/ (~IsNil(a.Variable) /\ ~IsNil(b.Variable) /\ a.Variable = b.Variable)

\* The items of a slice literal, none for an absent one.
ItemsOf(v) == IF IsNil(v) THEN <<>> ELSE Deref(v)

\* The literals of two typed values match: the same literal or both absent,
\* an absent slice literal counting as an empty one.
LiteralsMatch(a, b) ==
  IF a.kind \in SliceKinds
    THEN ItemsOf(a.Value) = ItemsOf(b.Value)
    ELSE a.Value = b.Value

\* The literal of a float slice, float map or EnvAny value holds a NaN.
HoldsNaN(a) ==
  /\ ~IsNil(a.Value)
  /\ CASE a.kind = "EnvFloatSlice" ->
            \E i \in 1..Len(Deref(a.Value)) : Deref(a.Value)[i] = NaN
       [] a.kind = "EnvMapFloat"   ->
            \E k \in DOMAIN Deref(a.Value) : Deref(a.Value)[k] = NaN
       [] a.kind = "EnvAny"        ->
            Deref(a.Value).type = "float64" /\ Deref(a.Value).f = NaN
       [] OTHER -> FALSE

LiteralOnly(a) == IsNil(a.Variable) /\ ~IsNil(a.Value)

VariableOnly(a) == ~IsNil(a.Variable) /\ IsNil(a.Value)

\* C12 as stated: for every kind Equal is reflexive and symmetric, two values
\* are Equal only if their literals match and their names match, and a
\* literal-only value is never Equal to a variable-only value.
C12_EqualReflexiveSymmetricExact ==
  res.op = "Equal" =>
    /\ res.target = ev => res.val
    /\ res.val = EqualOutcome(res.target, ev)
    /\ res.val => (LiteralsMatch(ev, res.target) /\ NamesMatch(ev, res.target))
    /\ (LiteralOnly(ev) /\ VariableOnly(res.target)) => ~res.val

\* C12 amended: the same, with Equal reflexive on the values whose literal
\* holds no NaN; a float slice, float map or EnvAny value whose literal holds
\* a NaN is not Equal to itself.
C12_EqualReflexiveUnlessNaN ==
  res.op = "Equal" =>
    /\ res.target = ev => (res.val <=> ~HoldsNaN(ev))
    /\ res.val = EqualOutcome(res.target, ev)
    /\ res.val => (LiteralsMatch(ev, res.target) /\ NamesMatch(ev, res.target))
    /\ (LiteralOnly(ev) /\ VariableOnly(res.target)) => ~res.val

\* Equal on two EnvAny values with the same literal, one with a name and one
\* without, gave false.
C12_Witness ==
  /\ res.op = "Equal"
  /\ ev.kind = "EnvAny"
  /\ ev.Value = Some(AnyBool(TRUE))
  /\ res.target.Value = ev.Value
  /\ IsNil(ev.Variable)
  /\ res.target.Variable = Some(VarA)
  /\ res.val = FALSE

\* A slice or map literal that is present and has no items.
EmptyCollection(v) == ~IsNil(v) /\ DOMAIN Deref(v) = {}

\* C13: with the same name, for the four slice kinds a value with an absent
\* literal Equals a value with an empty slice literal, and for the four map
\* kinds a value with an absent literal is not Equal to a value with an empty
\* map literal.
C13_AbsentEqualsEmptySliceNotMap ==
  (res.op = "Equal" /\ ev.kind \in SliceKinds \cup MapKinds
     /\ NamesMatch(ev, res.target)
     /\ \/ (IsNil(ev.Value) /\ EmptyCollection(res.target.Value))
        \/ (EmptyCollection(ev.Value) /\ IsNil(res.target.Value))) =>
    /\ ev.kind \in SliceKinds => res.val
    /\ ev.kind \in MapKinds => ~res.val

\* Equal on a map value without literal and one with an empty map, both with
\* the same name, gave false.
C13_Witness ==
  /\ res.op = "Equal"
  /\ ev.kind = "EnvMapString"
  /\ ev.Variable = Some(VarA)
  /\ res.target.Variable = Some(VarA)
  /\ IsNil(ev.Value)
  /\ res.target.Value = Some(EmptyMap)
  /\ res.val = FALSE

(***************************************************************************)
(* The parsers called on their own: an input string is drawn at the start  *)
(* and each exported parser is applied to it; res holds the input and the  *)
(* outcome of the last call.                                               *)
(***************************************************************************)
\* Longest input built from ParserAlphabet.
MaxInputLen == 4

\* A digit, a letter that no numeric or boolean parser accepts, the separators
\* of a pair, of a map fragment and of a slice item, and a blank.
ParserAlphabet == {"1", "a", "=", ";", ",", " "}

\* Longer inputs: numbers outside the narrow integer types, slices with blanks
\* and with an item that is no number, maps with a repeated key, with a
\* fragment that is no pair, with an empty fragment at the end, and with
\* values that are no numbers.
ParserSamples ==
  {<<"3", "0", "0">>,
   <<"-", "1">>,
   <<"1", ",", "3", "0", "0">>,
   <<"k", "=", "3", "0", "0">>,
   <<"k", "=", "-", "1">>,
   <<"1", ",", "a", "b", "c", ",", "3">>,
   <<"t", "r", "u", "e", ",", " ", "0">>,
   <<"1", ".", "5", ",", " ", "1">>,
   <<"a", ";", "b", "=", "2">>,
   <<"a", "=", "c", ";", "b", "=", "2">>,
   <<"a", "=", "1", ";", "b", "=", "2">>,
   <<"a", "=", "1", ";", "a", "=", "2">>,
   <<"a", "=", "1", ";", "b", "=", "2", ";", "a", "=", "3">>,
   <<"a", "=", "1", ";", "b", "=", "c", ";">>,
   <<"a", "=", "1", ";", "=", "2">>,
   <<"b", "=", "c", ";", "a", "=", "c">>}

RECURSIVE StringsUpTo(_, _)
\* The strings of at most n characters of alphabet.
StringsUpTo(alphabet, n) ==
  IF n = 0 THEN {EmptyString}
  ELSE LET shorter == StringsUpTo(alphabet, n - 1)
       IN  shorter \cup {Append(t, c) : t \in shorter, c \in alphabet}

ParserInputs == StringsUpTo(ParserAlphabet, MaxInputLen) \cup ParserSamples

ParserInit ==
  /\ ev = [kind |-> "EnvString", Value |-> None, Variable |-> None]
  /\ environ = [n \in Names |-> None]
  /\ res \in {[op |-> "none", input |-> input] : input \in ParserInputs}

\* The outcome of a parser call, with the call.
ParserResult(op, T, r) ==
  [op |-> op, T |-> T, input |-> res.input, val |-> r.val, err |-> r.err]

CallParseStringMapFromString ==
  /\ res' = ParserResult("ParseStringMapFromString", "string",
                         ParseStringMapFromString(res.input))
  /\ UNCHANGED <<ev, environ>>

CallParseIntegerMapFromString ==
  /\ \E T \in IntegerTypes :
       \E r \in ParseIntegerMapFromString(T, res.input) :
         res' = ParserResult("ParseIntegerMapFromString", T, r)
  /\ UNCHANGED <<ev, environ>>

CallParseFloatMapFromString ==
  /\ \E r \in ParseFloatMapFromString(res.input) :
       res' = ParserResult("ParseFloatMapFromString", "float64", r)
  /\ UNCHANGED <<ev, environ>>

CallParseBoolMapFromString ==
  /\ \E r \in ParseBoolMapFromString(res.input) :
       res' = ParserResult("ParseBoolMapFromString", "bool", r)
  /\ UNCHANGED <<ev, environ>>

CallParseStringSliceFromString ==
  /\ res' = ParserResult("ParseStringSliceFromString", "string",
                         [val |-> Some(ParseStringSliceFromString(res.input)),
                          err |-> NoErr])
  /\ UNCHANGED <<ev, environ>>

CallParseIntSliceFromString ==
  /\ \E T \in IntegerTypes :
       res' = ParserResult("ParseIntSliceFromString", T,
                           ParseIntSliceFromString(T, res.input))
  /\ UNCHANGED <<ev, environ>>

CallParseFloatSliceFromString ==
  /\ res' = ParserResult("ParseFloatSliceFromString", "float64",
                         ParseFloatSliceFromString(res.input))
  /\ UNCHANGED <<ev, environ>>

CallParseBoolSliceFromString ==
  /\ res' = ParserResult("ParseBoolSliceFromString", "bool",
                         ParseBoolSliceFromString(res.input))
  /\ UNCHANGED <<ev, environ>>

ParserNext ==
  \/ CallParseStringMapFromString
  \/ CallParseIntegerMapFromString
  \/ CallParseFloatMapFromString
  \/ CallParseBoolMapFromString
  \/ CallParseStringSliceFromString
  \/ CallParseIntSliceFromString
  \/ CallParseFloatSliceFromString
  \/ CallParseBoolSliceFromString

ParserSpec == ParserInit /\ [][ParserNext]_vars

(***************************************************************************)
(* C14..C17: the grammar of the map and slice parsers.  The properties     *)
(* read the input by the positions of its separators.                      *)
(***************************************************************************)
\* The positions of the character c in s.
Positions(s, c) == {i \in 1..Len(s) : s[i] = c}

\* The parts of s between separators c, each named by the position of the
\* separator in front of it (0 for the first part).
PartStarts(s, c) == {0} \cup Positions(s, c)

PartEnd(s, c, p) ==
  LET after == {q \in Positions(s, c) \cup {Len(s) + 1} : q > p}
  IN  CHOOSE q \in after : \A r \in after : q <= r

PartAt(s, c, p) == SubSeq(s, p + 1, PartEnd(s, c, p) - 1)

\* The 0-based index of the part named by p.
PartIndex(s, c, p) == Cardinality({q \in Positions(s, c) : q <= p})

\* A fragment is a pair: it has exactly one '=' and a key in front of it.
IsPair(f) == Cardinality(Positions(f, "=")) = 1 /\ f[1] # "="

\* The part of a fragment in front of its first '=': all of it without one.
LeftPart(f) ==
  IF Positions(f, "=") = {} THEN f ELSE PartAt(f, "=", 0)

\* The part of a pair behind its '='.
RightPart(f) == SubSeq(f, PartEnd(f, "=", 0) + 1, Len(f))

\* The fragment of input that gives key k its value: the last one with k.
LastFragmentOf(input, k) ==
  LET with == {p \in PartStarts(input, ";") : LeftPart(PartAt(input, ";", p)) = k}
  IN  PartAt(input, ";", CHOOSE p \in with : \A q \in with : q <= p)

AllPairs(input) ==
  \A p \in PartStarts(input, ";") : IsPair(PartAt(input, ";", p))

\* C14: ParseStringMapFromString gives an empty map and no error for the empty
\* input; otherwise it succeeds if and only if every ';'-separated fragment
\* has exactly two '='-separated parts and a key that is not empty, and the
\* result then maps each key to the value of its last fragment; every other
\* input is a parse error.
C14_StringMapGrammar ==
  res.op = "ParseStringMapFromString" =>
    IF res.input = EmptyString
      THEN res.err = NoErr /\ ~IsNil(res.val) /\ DOMAIN Deref(res.val) = {}
    ELSE IF AllPairs(res.input)
      THEN /\ res.err = NoErr
           /\ ~IsNil(res.val)
           /\ DOMAIN Deref(res.val) =
                {LeftPart(PartAt(res.input, ";", p)) : p \in PartStarts(res.input, ";")}
           /\ \A k \in DOMAIN Deref(res.val) :
                Deref(res.val)[k] = RightPart(LastFragmentOf(res.input, k))
    ELSE res.err # NoErr /\ res.err.code = ErrCodeParseEnvFailed /\ IsNil(res.val)

\* ParseStringMapFromString("a=1;b=2;a=3") gave a map of two keys with "3" for
\* the repeated key.
C14_Witness ==
  /\ res.op = "ParseStringMapFromString"
  /\ res.input = <<"a", "=", "1", ";", "b", "=", "2", ";", "a", "=", "3">>
  /\ res.err = NoErr
  /\ DOMAIN Deref(res.val) = {<<"a">>, <<"b">>}
  /\ Deref(res.val)[<<"a">>] = <<"3">>

SliceParserOps ==
  {"ParseStringSliceFromString", "ParseIntSliceFromString",
   "ParseFloatSliceFromString", "ParseBoolSliceFromString"}

MapParserOps ==
  {"ParseStringMapFromString", "ParseIntegerMapFromString",
   "ParseFloatMapFromString", "ParseBoolMapFromString"}

\* The strconv function behind a typed parser.
ConvOf(op) ==
  CASE op \in {"ParseIntSliceFromString", "ParseIntegerMapFromString"} -> "ParseInt"
    [] op \in {"ParseFloatSliceFromString", "ParseFloatMapFromString"} -> "ParseFloat"
    [] op \in {"ParseBoolSliceFromString", "ParseBoolMapFromString"}   -> "ParseBool"

\* What a slice parser is to store for an item already trimmed.
StoredItem(op, T, item) ==
  IF op = "ParseStringSliceFromString" THEN item
  ELSE ConvertTo(T, StrconvParse(ConvOf(op), item).val)

\* C15: each slice parser gives for the empty input an empty sequence and no
\* error, and for another input (when it succeeds) the sequence of the
\* comma-separated items in order, each trimmed of surrounding whitespace
\* before it is stored or converted.
C15_SliceParsersTrimItems ==
  res.op \in SliceParserOps =>
    /\ res.input = EmptyString =>
         (res.err = NoErr /\ ~IsNil(res.val) /\ Len(Deref(res.val)) = 0)
    /\ (res.input # EmptyString /\ res.err = NoErr) =>
         /\ ~IsNil(res.val)
         /\ Len(Deref(res.val)) = Cardinality(PartStarts(res.input, ","))
         /\ \A p \in PartStarts(res.input, ",") :
              Deref(res.val)[PartIndex(res.input, ",", p) + 1] =
                StoredItem(res.op, res.T, TrimSpace(PartAt(res.input, ",", p)))

\* The first fragment of a map input that is no pair.
FirstBadFragment(input) ==
  LET bad == {p \in PartStarts(input, ";") : ~IsPair(PartAt(input, ";", p))}
  IN  PartAt(input, ";", CHOOSE p \in bad : \A q \in bad : p <= q)

\* The keys of a well-formed map input whose value the strconv function of
\* the parser rejects.
FailingKeys(op, input) ==
  {k \in {LeftPart(PartAt(input, ";", p)) : p \in PartStarts(input, ";")} :
     StrconvParse(ConvOf(op), RightPart(LastFragmentOf(input, k))).err # NoErr}

\* The index of the first slice item the strconv function of the parser
\* rejects.
FirstFailingIndex(op, input) ==
  LET failing == {p \in PartStarts(input, ",") :
                    StrconvParse(ConvOf(op), TrimSpace(PartAt(input, ",", p))).err
                      # NoErr}
  IN  PartIndex(input, ",", CHOOSE p \in failing : \A q \in failing : p <= q)

\* The hint of a failed parse names the offending fragment: the left part of
\* the first fragment that is no pair, the key of a pair whose value is not
\* converted, the index of the first item that is not converted.
HintNamesFragment ==
  IF res.op \in MapParserOps
    THEN IF res.input # EmptyString /\ ~AllPairs(res.input)
           THEN res.err.hint = LeftPart(FirstBadFragment(res.input))
           ELSE res.err.hint \in FailingKeys(res.op, res.input)
    ELSE res.err.hint = Itoa(FirstFailingIndex(res.op, res.input))

\* C16 as stated: a map or slice parser that fails returns no partial
\* collection, and its error carries a hint that is not empty and names the
\* offending fragment.
C16_FailureCarriesNonEmptyHint ==
  (res.op \in MapParserOps \cup SliceParserOps /\ res.err # NoErr) =>
    /\ IsNil(res.val)
    /\ res.err.hint # EmptyString
    /\ HintNamesFragment

\* C16 amended: the same, but the hint is empty when the first fragment that
\* is no pair is empty or begins with '=', and only then.
C16_FailureHintIsLeftPart ==
  (res.op \in MapParserOps \cup SliceParserOps /\ res.err # NoErr) =>
    /\ IsNil(res.val)
    /\ HintNamesFragment
    /\ res.err.hint = EmptyString <=>
         /\ res.op \in MapParserOps
         /\ ~AllPairs(res.input)
         /\ LeftPart(FirstBadFragment(res.input)) = EmptyString

\* ParseIntSliceFromString("1,abc,3") failed with the hint "1" and no slice.
C16_Witness ==
  /\ res.op = "ParseIntSliceFromString"
  /\ res.input = <<"1", ",", "a", "b", "c", ",", "3">>
  /\ res.err # NoErr
  /\ res.err.hint = <<"1">>
  /\ IsNil(res.val)

\* The values strconv.ParseInt finds in the items of an input of an integer
\* parser: the trimmed items of a slice, the values of the pairs of a map.
IntegerItems(op, input) ==
  LET raws == IF op = "ParseIntSliceFromString"
                THEN {TrimSpace(PartAt(input, ",", p)) : p \in PartStarts(input, ",")}
                ELSE {RightPart(PartAt(input, ";", p)) :
                        p \in {q \in PartStarts(input, ";") :
                                 IsPair(PartAt(input, ";", q))}}
  IN  {ParseInt(raw).val : raw \in {x \in raws : ParseInt(x).err = NoErr}}

\* v is a value of the integer type T.
InRange(T, v) ==
  IF T \in {"int16", "int8"}
    THEN -(2^(BitsOf(T) - 1)) <= v /\ v < 2^(BitsOf(T) - 1)
  ELSE IF T = "uint8" THEN 0 <= v /\ v < 2^BitsOf(T)
  ELSE TRUE

\* C17: the generic integer parsers reject an item whose value is outside the
\* range of the target type T: they return an error, never a wrapped value.
C17_OutOfRangeRejected ==
  (res.op \in {"ParseIntegerMapFromString", "ParseIntSliceFromString"}
     /\ \E v \in IntegerItems(res.op, res.input) : ~InRange(res.T, v)) =>
    res.err # NoErr

(***************************************************************************)
(* C18..C20: the empty variable value, the empty name of EnvAny, and the   *)
(* kinds without a required value.                                         *)
(***************************************************************************)
\* C18 as stated: for every scalar kind Get gives the same outcome when the
\* named variable is defined with the empty string as when it is undefined:
\* the literal if one is present, otherwise the VariableValueRequired error.
C18_EmptyLikeUndefined ==
  (res.op = "Get" /\ ev.kind \in ScalarKinds /\ NamesVariable
     /\ (VariableUndefined \/ VariableDefinedEmpty)) =>
    IF LiteralPresent
      THEN res.err = NoErr /\ res.val = LiteralResult
      ELSE IsVariableValueRequired(res.err)

\* C18 amended: the same for EnvInt, EnvBool and EnvFloat, and for EnvString
\* with a literal; EnvString without a literal gives the empty string and no
\* error when the variable is defined with the empty string, and the
\* VariableValueRequired error when it is undefined.
C18_EmptyLikeUndefinedExceptString ==
  (res.op = "Get" /\ ev.kind \in ScalarKinds /\ NamesVariable
     /\ (VariableUndefined \/ VariableDefinedEmpty)) =>
    IF LiteralPresent
      THEN res.err = NoErr /\ res.val = LiteralResult
    ELSE IF ev.kind = "EnvString" /\ VariableDefinedEmpty
      THEN res.err = NoErr /\ res.val = EmptyString
    ELSE IsVariableValueRequired(res.err)

\* Get on an EnvInt without literal whose variable is defined with the empty
\* string failed with VariableValueRequired.
C18_Witness ==
  /\ res.op = "Get"
  /\ ev.kind = "EnvInt"
  /\ NamesVariable
  /\ ~LiteralPresent
  /\ VariableDefinedEmpty
  /\ IsVariableValueRequired(res.err)

\* C19 as stated: for EnvAny, Get and GetCustom on a value whose name is
\* present but empty return an error.
C19_AnyEmptyNameFails ==
  (Resolved /\ ev.kind = "EnvAny" /\ ev.Variable = Some(EmptyString)) =>
    res.err # NoErr

\* C19 amended: for EnvAny, Get and GetCustom on a value whose name is present
\* but empty return the literal (nil without one) and no error, and GetCustom
\* does not call the source.
C19_AnyEmptyNameIsAbsent ==
  (Resolved /\ ev.kind = "EnvAny" /\ ev.Variable = Some(EmptyString)) =>
    /\ res.err = NoErr
    /\ res.val = ev.Value
    /\ res.op = "GetCustom" => res.calls = <<>>

\* GetCustom with a failing source on an EnvAny with an empty name and no
\* literal gave nil and no error.
C19_Witness ==
  /\ res.op = "GetCustom"
  /\ res.getFunc = "mockError"
  /\ ev.kind = "EnvAny"
  /\ ev.Variable = Some(EmptyString)
  /\ ~LiteralPresent
  /\ res.val = None
  /\ res.err = NoErr

\* C20: for the four map kinds and EnvAny, Get and GetCustom never fail with
\* ValueRequired or VariableValueRequired: on a value with no literal whose
\* name is absent or empty, or for whose variable the source gives the empty
\* string and no error, they return nil and no error.
C20_MapAnyNeverRequired ==
  (Resolved /\ ev.kind \in MapKinds \cup {"EnvAny"}) =>
    /\ res.err # ErrEnvironmentValueRequired
    /\ ~IsVariableValueRequired(res.err)
    /\ (~LiteralPresent
          /\ (~NamesVariable
                \/ (SourceReturn.err = NoErr /\ SourceReturn.value = EmptyString))) =>
         (res.val = None /\ res.err = NoErr)

(***************************************************************************)
(* C21..C22: the empty string from the source, for EnvString.GetCustom and *)
(* for Get of the slice kinds.                                             *)
(***************************************************************************)
\* C21: EnvString.GetCustom on a typed value that names a variable returns
\* exactly the pair (value, error) of the source function, after one call of
\* it; in particular, when the source gives the empty string and no error, the
\* result is the empty string and no error, with or without a literal.
C21_StringCustomReturnsSourcePair ==
  (res.op = "GetCustom" /\ ev.kind = "EnvString" /\ NamesVariable) =>
    /\ res.val = SourceReturn.value
    /\ res.err = SourceReturn.err
    /\ res.calls = <<Deref(ev.Variable)>>
    /\ (SourceGaveEmpty => res.val = EmptyString /\ res.err = NoErr)

\* EnvString.GetCustom got the empty string and no error from the source while
\* a non-empty literal is present, and returned the empty string.
C21_Witness ==
  /\ res.op = "GetCustom"
  /\ ev.kind = "EnvString"
  /\ NamesVariable
  /\ LiteralPresent
  /\ Deref(ev.Value) # EmptyString
  /\ SourceGaveEmpty
  /\ res.val = EmptyString
  /\ res.err = NoErr

\* C22: for each slice kind, Get on a typed value with no literal that names a
\* variable returns an empty non-nil slice and no error when the variable is
\* defined with the empty string, and fails with VariableValueRequired when
\* the variable is undefined.
C22_SliceDefinedEmptyGivesEmptySlice ==
  (res.op = "Get" /\ ev.kind \in SliceKinds /\ NamesVariable /\ ~LiteralPresent) =>
    /\ VariableDefinedEmpty =>
         (res.err = NoErr /\ ~IsNil(res.val) /\ DOMAIN Deref(res.val) = {})
    /\ VariableUndefined =>
         (IsVariableValueRequired(res.err) /\ IsNil(res.val))

\* Get of a slice kind without literal returned the empty non-nil slice for a
\* variable defined with the empty string.
C22_Witness ==
  /\ res.op = "Get"
  /\ ev.kind \in SliceKinds
  /\ NamesVariable
  /\ ~LiteralPresent
  /\ VariableDefinedEmpty
  /\ res.err = NoErr
  /\ ~IsNil(res.val)
  /\ DOMAIN Deref(res.val) = {}

(***************************************************************************)
(* Concurrent calls on one shared typed value.  Every method has a value   *)
(* receiver: the call copies the struct {Value, Variable}, then reads the  *)
(* process environment or calls the source, then returns.  res holds the   *)
(* typed value as constructed (ev0) and, for each goroutine, its position  *)
(* (pc), its call, its copy of the receiver (recv), the environment as it  *)
(* read it (snap) and what it returned (ret).  The environment is not      *)
(* changed in this specification.                                          *)
(***************************************************************************)
Goroutines == {"g1", "g2"}

\* The environments the calls run in: the variable undefined, defined with
\* the empty string, defined with a value.
FixedEnvirons ==
  {[n \in Names |-> v] : v \in {None, Some(EmptyString), Some(<<"1">>)}}

\* The sources the concurrent GetCustom calls are given.
ConcurrentSources == {"GetOSEnv", "mock"}

IdleGoroutine ==
  [pc |-> "idle", method |-> "none", arg |-> None, recv |-> None,
   snap |-> None, ret |-> None]

ConcurrentInit ==
  /\ \E k \in Kinds : ev \in TypedValuesOf(k)
  /\ environ \in FixedEnvirons
  /\ res = [op |-> "concurrent", ev0 |-> ev, g |-> [p \in Goroutines |-> IdleGoroutine]]

\* Mutation of the receiver copy: the copy loses the literal.
CopyReceiver_DropsValue(e) == [e EXCEPT !.Value = None]

\* func (ev EnvInt) Get(): the receiver is the struct, passed by value.
CopyReceiver(e) == e

\* A goroutine may call a method when it is in no call.
CanCall(p) == res.g[p].pc \in {"idle", "returned"}

\* A goroutine that has called a method: the receiver is copied from the
\* shared value.
Called(method, arg) ==
  [pc |-> "called", method |-> method, arg |-> arg,
   recv |-> Some(CopyReceiver(ev)), snap |-> None, ret |-> None]

GoGet ==
  \E p \in Goroutines :
    /\ CanCall(p)
    /\ res' = [res EXCEPT !.g[p] = Called("Get", None)]
    /\ UNCHANGED <<ev, environ>>

GoGetCustom ==
  \E p \in Goroutines : \E getFunc \in ConcurrentSources :
    /\ CanCall(p)
    /\ res' = [res EXCEPT !.g[p] = Called("GetCustom", getFunc)]
    /\ UNCHANGED <<ev, environ>>

GoGetOrDefault ==
  /\ ev.kind \in ScalarKinds
  /\ \E p \in Goroutines : \E defaultValue \in Defaults(ev.kind) :
       /\ CanCall(p)
       /\ res' = [res EXCEPT !.g[p] = Called("GetOrDefault", Some(defaultValue))]
  /\ UNCHANGED <<ev, environ>>

GoIsZero ==
  \E p \in Goroutines :
    /\ CanCall(p)
    /\ res' = [res EXCEPT !.g[p] = Called("IsZero", None)]
    /\ UNCHANGED <<ev, environ>>

\* The targets of the concurrent Equal calls: the shared value itself and the
\* zero struct of its kind.
ConcurrentTargets ==
  {ev, [kind |-> ev.kind, Value |-> None, Variable |-> None]}

GoEqual ==
  \E p \in Goroutines : \E target \in ConcurrentTargets :
    /\ CanCall(p)
    /\ res' = [res EXCEPT !.g[p] = Called("Equal", Some(target))]
    /\ UNCHANGED <<ev, environ>>

\* The methods that read the environment or call the source.
LookupMethods == {"Get", "GetCustom", "GetOrDefault"}

\* os.LookupEnv, os.Getenv or getFunc in goroutine p: the environment is read.
GoLookup ==
  \E p \in Goroutines :
    /\ res.g[p].pc = "called"
    /\ res.g[p].method \in LookupMethods
    /\ res' = [res EXCEPT !.g[p].pc = "looked", !.g[p].snap = Some(environ)]
    /\ UNCHANGED <<ev, environ>>

\* What a call returns from the receiver e and the environment env.
MethodOutcomes(method, arg, e, env) ==
  CASE method = "Get" -> GetOutcomes(e, env)
    [] method = "GetCustom" -> GetCustomOutcomes(e, env, arg)
    [] method = "GetOrDefault" -> {GetOrDefaultOutcome(e, env, Deref(arg))}
    [] method = "IsZero" -> {[val |-> IsZeroOutcome(e)]}
    [] method = "Equal" -> {[val |-> EqualOutcome(e, Deref(arg))]}

\* Goroutine p returns: the result is computed from its copy of the receiver
\* and from the environment as it read it.  No method assigns to a field of
\* the receiver or through its pointers, so the shared value is left alone.
GoReturn ==
  \E p \in Goroutines :
    LET c == res.g[p]
    IN  /\ \/ c.pc = "looked"
           \/ c.pc = "called" /\ c.method \notin LookupMethods
        /\ \E r \in MethodOutcomes(c.method, c.arg, Deref(c.recv),
                                   IF IsNil(c.snap) THEN environ ELSE Deref(c.snap)) :
             res' = [res EXCEPT !.g[p].pc = "returned", !.g[p].ret = Some(r)]
        /\ UNCHANGED <<ev, environ>>

ConcurrentNext ==
  GoGet \/ GoGetCustom \/ GoGetOrDefault \/ GoIsZero \/ GoEqual \/ GoLookup \/ GoReturn

ConcurrentSpec == ConcurrentInit /\ [][ConcurrentNext]_vars

SequenceValues == {EmptyString, <<"1">>, <<"a">>, <<"k", "=", "1">>}

SequenceInit ==
  /\ \E k \in Kinds : ev \in TypedValuesOf(k)
  /\ environ = [n \in Names |-> None]
  /\ res = [op |-> "sequence", last |-> None, previous |-> None]

\* os.Setenv(key, value)
SequenceSetenv ==
  \E key \in Names : \E value \in SequenceValues :
    /\ environ[key] # Some(value)
    /\ environ' = [environ EXCEPT ![key] = Some(value)]
    /\ UNCHANGED <<ev, res>>

\* os.Unsetenv(key)
SequenceUnsetenv ==
  \E key \in Names :
    /\ ~IsNil(environ[key])
    /\ environ' = [environ EXCEPT ![key] = None]
    /\ UNCHANGED <<ev, res>>

\* Mutation of Get: the result of an earlier lookup is kept and returned.
SequenceGet_Cached ==
  /\ \E r \in IF IsNil(res.last)
                THEN GetOutcomes(ev, environ)
                ELSE {[val |-> Deref(res.last).val, err |-> Deref(res.last).err]} :
       res' = [op |-> "sequence",
               last |-> Some([val |-> r.val, err |-> r.err, at |-> environ]),
               previous |-> res.last]
  /\ UNCHANGED <<ev, environ>>

\* ev.Get(): the method has no state of its own and the struct has no field
\* for a resolved value, so the outcome is computed from the typed value and
\* the environment of this call.
SequenceGet ==
  /\ \E r \in GetOutcomes(ev, environ) :
       res' = [op |-> "sequence",
               last |-> Some([val |-> r.val, err |-> r.err, at |-> environ]),
               previous |-> res.last]
  /\ UNCHANGED <<ev, environ>>

SequenceNext == SequenceSetenv \/ SequenceUnsetenv \/ SequenceGet

SequenceSpec == SequenceInit /\ [][SequenceNext]_vars

\* The outcome a Get recorded in res is one of the typed value in the
\* environment of that call.
OutcomeOfItsCall(c) ==
  IsNil(c) \/
    [val |-> Deref(c).val, err |-> Deref(c).err] \in GetOutcomes(ev, Deref(c).at)

C25_SourceCalledAtMostOnce ==
  res.op = "GetCustom" =>
    /\ Len(res.calls) <= 1
    /\ \A i \in 1..Len(res.calls) :
         ~IsNil(ev.Variable) /\ res.calls[i] = Deref(ev.Variable)

\* A GetCustom of a map kind called the source once, with the name of the
\* typed value, and returned the parsed map.
C25_Witness ==
  /\ res.op = "GetCustom"
  /\ ev.kind \in MapKinds
  /\ NamesVariable
  /\ res.calls = <<Deref(ev.Variable)>>
  /\ SourceGaveRaw
  /\ res.err = NoErr

\* The outcomes of a method as value and kind of error: the value counts when
\* there is no error.
OutcomeKinds(rs) ==
  {[val |-> IF r.err = NoErr THEN <<r.val>> ELSE <<>>, code |-> r.err.code] : r \in rs}

\* C26: for every kind, typed value and state of the environment (variable
\* undefined, defined empty, defined non-empty), Get returns the same value or
\* the same kind of error as GetCustom(GetOSEnv).
C26_GetEqualsGetCustomOSEnv ==
  (res.op = "Get" \/ (res.op = "GetCustom" /\ res.getFunc = "GetOSEnv")) =>
    OutcomeKinds(GetOutcomes(ev, environ)) =
      OutcomeKinds(GetCustomOutcomes(ev, environ, "GetOSEnv"))

\* C27: for every kind, when a.Equal(b) is true then a.IsZero() = b.IsZero()
\* and, in the environment of the call, a.Get() and b.Get() give the same value
\* or the same kind of error.
C27_EqualIsCongruence ==
  (res.op = "Equal" /\ res.val) =>
    /\ IsZeroOutcome(ev) = IsZeroOutcome(res.target)
    /\ OutcomeKinds(GetOutcomes(ev, environ)) =
         OutcomeKinds(GetOutcomes(res.target, environ))

\* One of two typed values of a slice kind has no literal and the other has
\* the empty slice as literal.
AbsentAgainstEmptySlice(a, b) ==
  /\ a.kind \in SliceKinds
  /\ IsNil(a.Value) # IsNil(b.Value)

\* C27, amended: the same, for every pair a, b except a pair of a slice kind
\* in which one literal is absent and the other is the empty slice.
C27_EqualIsCongruenceExceptAbsentSlice ==
  (res.op = "Equal" /\ res.val /\ ~AbsentAgainstEmptySlice(ev, res.target)) =>
    /\ IsZeroOutcome(ev) = IsZeroOutcome(res.target)
    /\ OutcomeKinds(GetOutcomes(ev, environ)) =
         OutcomeKinds(GetOutcomes(res.target, environ))

\* Equal returned true for two typed values of a map kind with a literal and a
\* variable name, while the variable is undefined: both resolve to the literal.
C27_Witness ==
  /\ res.op = "Equal"
  /\ res.val
  /\ ev.kind \in MapKinds
  /\ NamesVariable
  /\ LiteralPresent
  /\ VariableUndefined
  /\ GetOutcomes(ev, environ) = GetOutcomes(res.target, environ)

\* The zero value of the type a method of the kind returns.
ZeroValueOf(kind) ==
  CASE kind = "EnvString" -> EmptyString
    [] kind = "EnvInt"    -> 0
    [] kind = "EnvBool"   -> FALSE
    [] kind = "EnvFloat"  -> ZeroFloat
    [] OTHER              -> None

ReturnedError == res.op \in {"Get", "GetCustom", "GetOrDefault"} /\ res.err # NoErr

ReturnsSourcePair == res.op = "GetCustom" /\ ev.kind = "EnvString" /\ NamesVariable

TypedMapParserOps ==
  {"ParseIntegerMapFromString", "ParseFloatMapFromString", "ParseBoolMapFromString"}

\* The results the typed map parser op can return for an input.
TypedMapResults(op, T, input) ==
  CASE op = "ParseIntegerMapFromString" -> ParseIntegerMapFromString(T, input)
    [] op = "ParseFloatMapFromString"   -> ParseFloatMapFromString(input)
    [] op = "ParseBoolMapFromString"    -> ParseBoolMapFromString(input)

\* The key of the first pair, in input order, whose key has a value that the
\* strconv function of the parser rejects.
FirstFailingKey(op, input) ==
  LET failing == {p \in PartStarts(input, ";") :
                    LeftPart(PartAt(input, ";", p)) \in FailingKeys(op, input)}
  IN  LeftPart(PartAt(input, ";", CHOOSE p \in failing : \A q \in failing : p <= q))

\* C29: ParseIntegerMapFromString, ParseFloatMapFromString and
\* ParseBoolMapFromString return one result for an input, the same at every
\* call; when values of several pairs fail conversion, the hint of the error
\* is the key of the first such pair in input order.
C29_TypedMapParsersDeterministic ==
  res.op \in TypedMapParserOps =>
    /\ Cardinality(TypedMapResults(res.op, res.T, res.input)) = 1
    /\ (res.err # NoErr /\ res.input # EmptyString /\ AllPairs(res.input)) =>
         res.err.hint = FirstFailingKey(res.op, res.input)

(***************************************************************************)
(* A caller that writes into the collection Get returned.  A Go slice is a *)
(* header over a backing array and a Go map is a pointer: `return          *)
(* ev.Value, nil` hands the caller the store of the literal itself.        *)
(* ev.Value holds the contents of that store.  res holds the literal as    *)
(* constructed (original), the outcome of the last Get (val, err), whether *)
(* the collection it returned is the store of the literal (shares), and    *)
(* how far the caller is (phase).                                          *)
(***************************************************************************)
CollectionKinds == SliceKinds \cup MapKinds

AliasInit ==
  /\ \E k \in CollectionKinds : ev \in TypedValuesOf(k)
  /\ environ \in FixedEnvirons
  /\ res = [op |-> "alias", phase |-> "new", original |-> ev.Value,
            val |-> None, err |-> NoErr, shares |-> FALSE]

\* Get reaches `if ev.Value != nil { return ev.Value, nil }` (slice kinds) or
\* the closing `return ev.Value, nil` (map kinds) with a literal present: the
\* variable is not named, or its value is empty.
ReturnsLiteralItself(e, env) ==
  /\ ~IsNil(e.Value)
  /\ ~(HasVariable(e) /\ Getenv(env, Deref(e.Variable)) # EmptyString)

\* ev.Get() by the caller
AliasGet ==
  /\ \E r \in GetOutcomes(ev, environ) :
       res' = [res EXCEPT !.phase = IF res.phase \in {"modified", "again"}
                                      THEN "again" ELSE "got",
                          !.val = r.val, !.err = r.err,
                          !.shares = ReturnsLiteralItself(ev, environ)]
  /\ UNCHANGED <<ev, environ>>

\* The value the caller stores: a value of the item type that is in no
\* literal.
OtherItem(kind) ==
  CASE kind \in {"EnvStringSlice", "EnvMapString"} -> <<"x">>
    [] kind \in {"EnvIntSlice", "EnvMapInt"}       -> 7
    [] kind \in {"EnvFloatSlice", "EnvMapFloat"}   -> NormFloat(25, -1)
    [] kind \in {"EnvBoolSlice", "EnvMapBool"}     -> FALSE

\* result[0] = x on a slice, result[key] = x on a map
StoreItem(kind, c) ==
  IF kind \in SliceKinds
    THEN [c EXCEPT ![1] = OtherItem(kind)]
    ELSE MapPut(c, Key1, OtherItem(kind))

\* The caller assigns to an element of the slice or to an entry of the map
\* the last Get returned.  The assignment goes to the store the collection
\* refers to: the store of the literal when Get returned the literal itself.
AliasModify ==
  /\ res.phase \in {"got", "again"}
  /\ res.err = NoErr
  /\ ~IsNil(res.val)
  /\ ev.kind \in SliceKinds => DOMAIN Deref(res.val) # {}
  /\ LET stored == Some(StoreItem(ev.kind, Deref(res.val)))
     IN  /\ res' = [res EXCEPT !.phase = "modified", !.val = stored]
         /\ ev' = IF res.shares THEN [ev EXCEPT !.Value = stored] ELSE ev
  /\ UNCHANGED environ

AliasNext == AliasGet \/ AliasModify

AliasSpec == AliasInit /\ [][AliasNext]_vars

\* C30: after the caller has modified an element of the slice or an entry of
\* the map that Get returned from the literal, a later Get on the same typed
\* value in the same environment that returns the literal returns the
\* contents the literal was constructed with.
C30_ReturnedCollectionIndependent ==
  (res.phase = "again" /\ res.err = NoErr /\ res.shares) =>
    res.val = res.original
====
